---- MODULE Spec2Model ----
(***************************************************************************)
(* Model of the DocVal text core: the OCR normaliser, the field validators *)
(* (CURP, RFC, CLABE, VIN, placas, NSS), postProcessExtractedData,         *)
(* detectFraud and the two analyzeDocument entry points.                   *)
(*                                                                         *)
(* A string is a sequence of one-character strings.  An array element that *)
(* a replace() emptied is "", a missing element is Undefined.  Confidences *)
(* are kept in hundredths (0.95 is 95), sums of confidences with their     *)
(* count.  A Date is a number of days since 1970-01-01 (local midnight).   *)
(***************************************************************************)
EXTENDS Integers, Sequences, FiniteSets, TLC

VARIABLES
    pc,         \* position of the request being served
    now,        \* the clock read by new Date(): days since 1970-01-01
    field,      \* validate-field request: the field name
    value,      \* validate-field request: the raw value
    misreads,   \* how many characters of value the OCR stage got wrong
    outcome,    \* FieldValidationResult of validateField(field, value)
    again,      \* FieldValidationResult of validateField(field, outcome.corrected)
    extracted,  \* detectFraud argument extractedData
    declared,   \* detectFraud argument documentType
    illegible,  \* detectFraud argument illegibleFields
    quality,    \* detectFraud argument imageQuality
    analysis,   \* FraudAnalysis returned by the first detectFraud call
    repeated,   \* FraudAnalysis returned by a second call with the same arguments
    ticks,      \* years gone by between the two calls
    parsed,     \* the AI stage's parsed JSON answer, NoReply when there is none
    post,       \* what postProcessExtractedData returned to the analysis
    answer,     \* DocumentAnalysisResult returned by the analysis
    mode,       \* normalizeOCRString argument context
    reading,    \* what normalizeOCRString(value, mode) returned
    calls,      \* the invocations in progress, each with its own locals
    timeOfDay,  \* the clock read by new Date(): quarter days gone by within day now
    born,       \* what extractBirthDateFromCURP(extracted.curp) returned
    screened    \* what quickFraudCheck(extracted) returned

validateVars == <<field, value, misreads, outcome, again>>

fraudVars == <<extracted, declared, illegible, quality, analysis, repeated, ticks>>

analyzeVars == <<parsed, post, answer>>

libraryVars == <<mode, reading, calls>>

screenVars == <<timeOfDay, born, screened>>

vars == <<pc, now, validateVars, fraudVars, analyzeVars, libraryVars, screenVars>>

-----------------------------------------------------------------------------
(* Characters and strings                                                  *)

Digits == <<"0", "1", "2", "3", "4", "5", "6", "7", "8", "9">>

UpperLetters ==
    <<"A", "B", "C", "D", "E", "F", "G", "H", "I", "J", "K", "L", "M",
      "N", "O", "P", "Q", "R", "S", "T", "U", "V", "W", "X", "Y", "Z">>

LowerLetters ==
    <<"a", "b", "c", "d", "e", "f", "g", "h", "i", "j", "k", "l", "m",
      "n", "o", "p", "q", "r", "s", "t", "u", "v", "w", "x", "y", "z">>

Range(s) == {s[i] : i \in DOMAIN s}

Undefined == "undefined"

NaN == -1000000

IsDigit(c) == c \in Range(Digits)

IsUpperAZ(c) == c \in Range(UpperLetters)

IsWhitespace(c) == c = " "

IndexOf(s, c) ==
    IF \E i \in DOMAIN s : s[i] = c
    THEN (CHOOSE i \in DOMAIN s : s[i] = c /\ \A j \in 1..(i - 1) : s[j] # c) - 1
    ELSE -1

DigitValue(c) == IndexOf(Digits, c)

DigitChar(n) == Digits[n + 1]

Min(a, b) == IF a < b THEN a ELSE b

Max(a, b) == IF a > b THEN a ELSE b

\* s[i] with JavaScript's 0-based index
At(s, i) == IF i + 1 \in DOMAIN s THEN s[i + 1] ELSE Undefined

\* s.slice(a, b) for 0 <= a
Slice(s, a, b) == SubSeq(s, a + 1, Min(b, Len(s)))

MapSeq(s, Op(_)) == [i \in DOMAIN s |-> Op(s[i])]

\* the letters of Spanish outside a-z, in both cases
AccentedLower == <<"á", "é", "í", "ó", "ú", "ü", "ñ">>

AccentedUpper == <<"Á", "É", "Í", "Ó", "Ú", "Ü", "Ñ">>

ToUpperChar(c) ==
    IF IndexOf(LowerLetters, c) >= 0 THEN UpperLetters[IndexOf(LowerLetters, c) + 1]
    ELSE IF IndexOf(AccentedLower, c) >= 0 THEN AccentedUpper[IndexOf(AccentedLower, c) + 1]
    ELSE c

ToLowerChar(c) ==
    IF IndexOf(UpperLetters, c) >= 0 THEN LowerLetters[IndexOf(UpperLetters, c) + 1]
    ELSE IF IndexOf(AccentedUpper, c) >= 0 THEN AccentedLower[IndexOf(AccentedUpper, c) + 1]
    ELSE c

ToUpperCase(s) == MapSeq(s, ToUpperChar)

ToLowerCase(s) == MapSeq(s, ToLowerChar)

RECURSIVE TrimStart(_)
TrimStart(s) ==
    IF s # <<>> /\ IsWhitespace(Head(s)) THEN TrimStart(Tail(s)) ELSE s

RECURSIVE TrimEnd(_)
TrimEnd(s) ==
    IF s # <<>> /\ IsWhitespace(s[Len(s)]) THEN TrimEnd(SubSeq(s, 1, Len(s) - 1)) ELSE s

Trim(s) == TrimEnd(TrimStart(s))

Includes(s, c) == \E i \in DOMAIN s : s[i] = c

\* parseInt(s, 10): the leading digits, NaN when there are none
RECURSIVE ParseDigits(_, _)
ParseDigits(s, acc) ==
    IF s # <<>> /\ IsDigit(Head(s))
    THEN ParseDigits(Tail(s), acc * 10 + DigitValue(Head(s)))
    ELSE acc

ParseInt(s) ==
    LET t == TrimStart(s)
    IN  IF t # <<>> /\ IsDigit(Head(t)) THEN ParseDigits(t, 0)
        ELSE IF Len(t) >= 2 /\ t[1] = "-" /\ IsDigit(t[2]) THEN 0 - ParseDigits(Tail(t), 0)
        ELSE IF Len(t) >= 2 /\ t[1] = "+" /\ IsDigit(t[2]) THEN ParseDigits(Tail(t), 0)
        ELSE NaN

-----------------------------------------------------------------------------
(* OCR normaliser                                                          *)

IsNoise(c) == c \in {" ", "-", "_", ".", ",", ":", ";", "'", "\""}

NotNoise(c) == ~IsNoise(c)

NumericGlyph(c) ==
    IF c \in {"O", "o", "Q", "D"} THEN "0"
    ELSE IF c \in {"I", "i", "l", "L", "|", "!"} THEN "1"
    ELSE IF c \in {"Z", "z"} THEN "2"
    ELSE IF c \in {"S", "s", "$"} THEN "5"
    ELSE IF c \in {"G", "b"} THEN "6"
    ELSE IF c \in {"B"} THEN "8"
    ELSE IF c \in {"g", "q"} THEN "9"
    ELSE c

AlphaGlyph(c) ==
    IF c = "0" THEN "O"
    ELSE IF c = "1" THEN "I"
    ELSE IF c = "2" THEN "Z"
    ELSE IF c = "5" THEN "S"
    ELSE IF c = "6" THEN "G"
    ELSE IF c = "8" THEN "B"
    ELSE IF c = "9" THEN "G"
    ELSE c

normalizeOCRString(input, context) ==
    IF input = <<>> THEN input
    ELSE LET upper  == Trim(ToUpperCase(input))
             result == SelectSeq(upper, NotNoise)
         IN  IF context = "numeric" THEN MapSeq(result, NumericGlyph)
             ELSE IF context = "alpha" THEN MapSeq(result, AlphaGlyph)
             ELSE result

\* normalizeOCRString on one array element: the string left, "" when emptied
NormalizeElement(c, context) ==
    LET r == normalizeOCRString(<<c>>, context)
    IN  IF r = <<>> THEN "" ELSE r[1]

-----------------------------------------------------------------------------
(* Results                                                                 *)

Correction(msg, pos, from, to) == [msg |-> msg, pos |-> pos, from |-> from, to |-> to]

Result(valid, corrected, confidence, corrections) ==
    [valid |-> valid, corrected |-> corrected, confidence |-> confidence,
     corrections |-> corrections]

\* an empty input scored like a value of invalid length
EmptyResult_Scored == Result(FALSE, <<>>, 30, <<>>)

EmptyResult == Result(FALSE, <<>>, 0, <<>>)

NotWhitespaceOrHyphen(c) == ~(IsWhitespace(c) \/ c = "-")

\* x.toUpperCase().replace(/[\s\-]/g, '')
Clean(s) == SelectSeq(ToUpperCase(s), NotWhitespaceOrHyphen)

NonEmptyElement(c) == c # ""

\* array.join('')
Join(arr) == SelectSeq(arr, NonEmptyElement)

\* one pass of "if (corrected[pos]) { normalise, log when changed }" over positions
RECURSIVE FixPositions(_, _, _)
FixPositions(st, positions, context) ==
    IF positions = <<>> THEN st
    ELSE LET pos      == Head(positions)
             original == At(st.arr, pos)
             fixed    == NormalizeElement(original, context)
         IN  IF original = Undefined \/ original = ""
             THEN FixPositions(st, Tail(positions), context)
             ELSE FixPositions(
                     [arr |-> [st.arr EXCEPT ![pos + 1] = fixed],
                      log |-> IF original # fixed
                              THEN Append(st.log, Correction("Position", pos, original, fixed))
                              ELSE st.log],
                     Tail(positions), context)

-----------------------------------------------------------------------------
(* CURP                                                                    *)

CURPDictionary ==
    <<"0", "1", "2", "3", "4", "5", "6", "7", "8", "9",
      "A", "B", "C", "D", "E", "F", "G", "H", "I", "J", "K", "L", "M", "N",
      "Ñ", "O", "P", "Q", "R", "S", "T", "U", "V", "W", "X", "Y", "Z">>

RECURSIVE CURPWeightedSum(_, _, _)
\* the loop of calculateCURPVerificationDigit from i on: the sum, or -1 on an
\* invalid character
CURPWeightedSum(curp17, i, sum) ==
    IF i >= 17 THEN sum
    ELSE LET index == IndexOf(CURPDictionary, At(curp17, i))
         IN  IF index = -1 THEN -1
             ELSE CURPWeightedSum(curp17, i + 1, sum + index * (18 - i))

calculateCURPVerificationDigit(curp17) ==
    LET sum == CURPWeightedSum(curp17, 0, 0)
    IN  IF sum = -1 THEN "0"
        ELSE LET digit == 10 - (sum % 10)
             IN  IF digit = 10 THEN "0" ELSE DigitChar(digit)

\* the table without the code of those born abroad
VALID_STATE_CODES_Domestic ==
    {<<"A", "S">>, <<"B", "C">>, <<"B", "S">>, <<"C", "C">>, <<"C", "L">>,
     <<"C", "M">>, <<"C", "S">>, <<"C", "H">>, <<"D", "F">>, <<"D", "G">>,
     <<"G", "T">>, <<"G", "R">>, <<"H", "G">>, <<"J", "C">>, <<"M", "C">>,
     <<"M", "N">>, <<"M", "S">>, <<"N", "T">>, <<"N", "L">>, <<"O", "C">>,
     <<"P", "L">>, <<"Q", "T">>, <<"Q", "R">>, <<"S", "P">>, <<"S", "L">>,
     <<"S", "R">>, <<"T", "C">>, <<"T", "S">>, <<"T", "L">>, <<"V", "Z">>,
     <<"Y", "N">>, <<"Z", "S">>}

VALID_STATE_CODES ==
    {<<"A", "S">>, <<"B", "C">>, <<"B", "S">>, <<"C", "C">>, <<"C", "L">>,
     <<"C", "M">>, <<"C", "S">>, <<"C", "H">>, <<"D", "F">>, <<"D", "G">>,
     <<"G", "T">>, <<"G", "R">>, <<"H", "G">>, <<"J", "C">>, <<"M", "C">>,
     <<"M", "N">>, <<"M", "S">>, <<"N", "T">>, <<"N", "L">>, <<"O", "C">>,
     <<"P", "L">>, <<"Q", "T">>, <<"Q", "R">>, <<"S", "P">>, <<"S", "L">>,
     <<"S", "R">>, <<"T", "C">>, <<"T", "S">>, <<"T", "L">>, <<"V", "Z">>,
     <<"Y", "N">>, <<"Z", "S">>, <<"N", "E">>}

IsAlnum(c) == IsUpperAZ(c) \/ IsDigit(c)

\* /^[A-Z]{4}\d{6}[HM][A-Z]{2}[A-Z]{3}[A-Z0-9]\d$/
curpPattern(s) ==
    /\ Len(s) = 18
    /\ \A i \in 1..4 : IsUpperAZ(s[i])
    /\ \A i \in 5..10 : IsDigit(s[i])
    /\ s[11] \in {"H", "M"}
    /\ \A i \in 12..16 : IsUpperAZ(s[i])
    /\ IsAlnum(s[17])
    /\ IsDigit(s[18])

CURPLengthRepair(normalized) ==
    IF Len(normalized) = 17
    THEN [arr |-> Append(normalized, "0"),
          log |-> <<Correction("Added missing character", 0, "", "")>>]
    ELSE IF Len(normalized) = 19
    THEN [arr |-> SubSeq(normalized, 1, 18),
          log |-> <<Correction("Removed extra character", 0, "", "")>>]
    ELSE [arr |-> normalized, log |-> <<>>]

CURPFixGender(st) ==
    LET original == At(st.arr, 10)
    IN  IF original = Undefined \/ original = "" THEN st
        ELSE IF original \in {"4", "A"} \/ original \in {"|", "I", "1"}
        THEN [arr |-> [st.arr EXCEPT ![11] = "H"],
              log |-> Append(st.log, Correction("Position (gender)", 10, original, "H"))]
        ELSE st

CURPFixDisambiguation(st) ==
    LET birthYear == ParseInt(Join(Slice(st.arr, 4, 6)))
        original  == At(st.arr, 16)
    IN  IF original = Undefined \/ original = "" THEN st
        ELSE IF birthYear # NaN /\ birthYear >= 0 /\ birthYear <= 99 /\ ~IsUpperAZ(original)
        THEN FixPositions(st, <<16>>, "numeric")
        ELSE st

\* the variant that never recomputes the digit
CURPFixVerificationDigit_NoChecksum(st) == [arr |-> Join(st.arr), log |-> st.log]

CURPFixVerificationDigit(st) ==
    LET result        == Join(st.arr)
        expectedDigit == calculateCURPVerificationDigit(Slice(result, 0, 17))
        actualDigit   == At(result, 17)
    IN  IF actualDigit # expectedDigit
        THEN [arr |-> Append(Slice(result, 0, 17), expectedDigit),
              log |-> Append(st.log,
                         Correction("Verification digit (checksum)", 17,
                                    actualDigit, expectedDigit))]
        ELSE [arr |-> result, log |-> st.log]

\* lines 268-290: the state code, the pattern and the confidence
CURPOutcome(final, validStateCode, patternValid) ==
    Result(patternValid /\ validStateCode, final.arr,
           Max(30, 100 - 3 * Len(final.log)
                       - (IF validStateCode THEN 0 ELSE 20)
                       - (IF patternValid THEN 0 ELSE 30)),
           final.log)

CURPJudge(final) ==
    CURPOutcome(final, Slice(final.arr, 11, 13) \in VALID_STATE_CODES, curpPattern(final.arr))

CURPFixLetters(st) == FixPositions(st, <<0, 1, 2, 3, 11, 12, 13, 14, 15>>, "alpha")

\* the birth-date positions normalised as letters
CURPFixDigits_AsLetters(st) == FixPositions(st, <<4, 5, 6, 7, 8, 9>>, "alpha")

CURPFixDigits(st) == FixPositions(st, <<4, 5, 6, 7, 8, 9>>, "numeric")

CURPFixLastPosition(st) == FixPositions(st, <<17>>, "numeric")

validateAndFixCURP(curp) ==
    IF curp = <<>> THEN EmptyResult
    ELSE CURPJudge(
           CURPFixVerificationDigit(
             CURPFixLastPosition(
               CURPFixDisambiguation(
                 CURPFixGender(
                   CURPFixDigits(
                     CURPFixLetters(
                       CURPLengthRepair(Clean(curp)))))))))

-----------------------------------------------------------------------------
(* RFC                                                                     *)

RFCLengthRepair(normalized) ==
    IF Len(normalized) < 12 \/ Len(normalized) > 13
    THEN LET added == IF Len(normalized) = 11
                      THEN [arr |-> Append(normalized, "0"),
                            log |-> <<Correction("Added missing character", 0, "", "")>>]
                      ELSE [arr |-> normalized, log |-> <<>>]
         IN  IF Len(added.arr) = 14
             THEN [arr |-> SubSeq(added.arr, 1, 13),
                   log |-> Append(added.log, Correction("Removed extra character", 0, "", ""))]
             ELSE added
    ELSE [arr |-> normalized, log |-> <<>>]

\* /^[A-Z]{4}\d{6}[A-Z0-9]{3}$/ for letters = 4, /^[A-Z]{3}\d{6}[A-Z0-9]{3}$/ for 3
rfcPattern(s, letters) ==
    /\ Len(s) = letters + 9
    /\ \A i \in 1..letters : IsUpperAZ(s[i])
    /\ \A i \in (letters + 1)..(letters + 6) : IsDigit(s[i])
    /\ \A i \in (letters + 7)..(letters + 9) : IsAlnum(s[i])

Upto(a, b) == [i \in 1..(b - a) |-> a + i - 1]

RFCOutcome(result, log, isValid) ==
    Result(isValid, result, IF isValid THEN Max(70, 100 - 5 * Len(log)) ELSE 40, log)

RFCJudge(st) ==
    RFCOutcome(Join(st.arr), st.log,
               rfcPattern(Join(st.arr), 4) \/ rfcPattern(Join(st.arr), 3))

RFCFix(st, letterCount) ==
    FixPositions(FixPositions(st, Upto(0, letterCount), "alpha"),
                 Upto(letterCount, letterCount + 6), "numeric")

RFCLetterCount(st) == IF Len(st.arr) = 13 THEN 4 ELSE 3

RFCFixAll(st) == RFCFix(st, RFCLetterCount(st))

validateAndFixRFC(rfc) ==
    IF rfc = <<>> THEN EmptyResult
    ELSE RFCJudge(RFCFixAll(RFCLengthRepair(Clean(rfc))))

-----------------------------------------------------------------------------
(* CLABE                                                                   *)

CLABEWeights == <<3, 7, 1, 3, 7, 1, 3, 7, 1, 3, 7, 1, 3, 7, 1, 3, 7>>

\* parseInt of one element of a digit string: NaN past its end
ParseDigitAt(s, i) == IF At(s, i) = Undefined THEN NaN ELSE DigitValue(At(s, i))

RECURSIVE CLABESum(_, _, _)
CLABESum(normalized, i, sum) ==
    IF i >= 17 THEN sum
    ELSE LET digit == ParseDigitAt(normalized, i)
         IN  IF digit = NaN \/ sum = NaN THEN NaN
             ELSE CLABESum(normalized, i + 1, sum + ((digit * CLABEWeights[i + 1]) % 10))

NumberString(n) == IF n = NaN THEN "NaN" ELSE DigitChar(n)

\* the length left alone
CLABELengthRepair_AsRead(normalized) == [arr |-> normalized, log |-> <<>>]

CLABELengthRepair(normalized) ==
    IF Len(normalized) # 18
    THEN LET added == IF Len(normalized) = 17
                      THEN [arr |-> <<"0">> \o normalized,
                            log |-> <<Correction("Added leading zero", 0, "", "")>>]
                      ELSE [arr |-> normalized, log |-> <<>>]
         IN  IF Len(added.arr) = 19
             THEN [arr |-> SubSeq(added.arr, 1, 18),
                   log |-> Append(added.log, Correction("Removed extra digit", 0, "", ""))]
             ELSE added
    ELSE [arr |-> normalized, log |-> <<>>]

validateAndFixCLABE(clabe) ==
    IF clabe = <<>> THEN EmptyResult
    ELSE LET repaired   == CLABELengthRepair(SelectSeq(normalizeOCRString(clabe, "numeric"), IsDigit))
             normalized == repaired.arr
             sum        == CLABESum(normalized, 0, 0)
             expectedChecksum == IF sum = NaN THEN NaN ELSE (10 - (sum % 10)) % 10
             actualChecksum   == ParseDigitAt(normalized, 17)
             checksumValid    == /\ expectedChecksum # NaN
                                 /\ actualChecksum # NaN
                                 /\ expectedChecksum = actualChecksum
             corrections == IF checksumValid THEN repaired.log
                            ELSE Append(repaired.log,
                                        Correction("Checksum mismatch", 17,
                                                   NumberString(actualChecksum),
                                                   NumberString(expectedChecksum)))
         IN  Result(Len(normalized) = 18 /\ checksumValid, normalized,
                    IF checksumValid THEN 95 ELSE 60, corrections)

-----------------------------------------------------------------------------
(* VIN and placas                                                          *)

\* Q left as read
VINGlyph_QKept(c) == IF c = "I" THEN "1" ELSE IF c = "O" THEN "0" ELSE c

VINGlyph(c) ==
    IF c = "I" THEN "1" ELSE IF c = "O" THEN "0" ELSE IF c = "Q" THEN "0" ELSE c

\* /^[A-HJ-NPR-Z0-9]{17}$/
vinPattern(s) ==
    /\ Len(s) = 17
    /\ \A i \in 1..17 : IsAlnum(s[i]) /\ s[i] \notin {"I", "O", "Q"}

validateAndFixVIN(vin) ==
    IF vin = <<>> THEN EmptyResult
    ELSE LET cleaned    == Clean(vin)
             forbidden  == \E i \in DOMAIN cleaned : cleaned[i] \in {"I", "O", "Q"}
             normalized == IF forbidden THEN MapSeq(cleaned, VINGlyph) ELSE cleaned
             isValid    == vinPattern(normalized)
         IN  Result(isValid, normalized, IF isValid THEN 90 ELSE 40,
                    IF forbidden
                    THEN <<Correction("Replaced I/O/Q with 1/0/0", 0, "", "")>>
                    ELSE <<>>)

\* /^[A-Z0-9]{3,4}[A-Z0-9]{3,4}$/
placasPattern(s) ==
    /\ \E a \in {3, 4}, b \in {3, 4} : Len(s) = a + b
    /\ \A i \in DOMAIN s : IsAlnum(s[i])

validateAndFixPlacas(placas) ==
    IF placas = <<>> THEN EmptyResult
    ELSE LET normalized == Clean(placas)
         IN  IF Len(normalized) >= 6 /\ Len(normalized) <= 8
             THEN Result(placasPattern(normalized), normalized,
                         IF placasPattern(normalized) THEN 85 ELSE 50, <<>>)
             ELSE Result(FALSE, normalized, 30, <<>>)

-----------------------------------------------------------------------------
(* NSS                                                                     *)

RECURSIVE NSSSum(_, _, _)
NSSSum(nss10, i, sum) ==
    IF i >= 10 THEN sum
    ELSE LET digit   == DigitValue(At(nss10, i))
             doubled == IF i % 2 = 0
                        THEN (IF digit * 2 > 9 THEN digit * 2 - 9 ELSE digit * 2)
                        ELSE digit
         IN  NSSSum(nss10, i + 1, sum + doubled)

calculateNSSVerificationDigit(nss10) == DigitChar((10 - (NSSSum(nss10, 0, 0) % 10)) % 10)

NSSInvalidLength(normalized) ==
    Result(FALSE, normalized, 30, <<Correction("Invalid length", Len(normalized), "", "")>>)

\* the check digit compared but left as read
NSSChecksum_DigitKept(st) ==
    LET normalized    == st.arr
        expectedDigit == calculateNSSVerificationDigit(Slice(normalized, 0, 10))
        actualDigit   == At(normalized, 10)
        corrections   == IF actualDigit # expectedDigit
                         THEN Append(st.log, Correction("Verification digit", 10,
                                                        actualDigit, expectedDigit))
                         ELSE st.log
        isValid       == Len(normalized) = 11 /\ \A i \in DOMAIN normalized : IsDigit(normalized[i])
    IN  Result(isValid, normalized,
               IF isValid THEN Max(70, 100 - 10 * Len(corrections)) ELSE 40,
               corrections)

NSSChecksum(st) ==
    LET normalized    == st.arr
        expectedDigit == calculateNSSVerificationDigit(Slice(normalized, 0, 10))
        actualDigit   == At(normalized, 10)
        fixed         == IF actualDigit # expectedDigit
                         THEN Append(Slice(normalized, 0, 10), expectedDigit)
                         ELSE normalized
        corrections   == IF actualDigit # expectedDigit
                         THEN Append(st.log, Correction("Verification digit", 10,
                                                        actualDigit, expectedDigit))
                         ELSE st.log
        isValid       == Len(fixed) = 11 /\ \A i \in DOMAIN fixed : IsDigit(fixed[i])
    IN  Result(isValid, fixed,
               IF isValid THEN Max(70, 100 - 10 * Len(corrections)) ELSE 40,
               corrections)

\* no length repair: anything but 11 digits is an invalid length
validateAndFixNSS_ElevenOnly(nss) ==
    IF nss = <<>> THEN EmptyResult
    ELSE LET normalized == SelectSeq(normalizeOCRString(nss, "numeric"), IsDigit)
         IN  IF Len(normalized) = 11
             THEN NSSChecksum([arr |-> normalized, log |-> <<>>])
             ELSE NSSInvalidLength(normalized)

validateAndFixNSS(nss) ==
    IF nss = <<>> THEN EmptyResult
    ELSE LET normalized == SelectSeq(normalizeOCRString(nss, "numeric"), IsDigit)
         IN  IF Len(normalized) = 11
             THEN NSSChecksum([arr |-> normalized, log |-> <<>>])
             ELSE IF Len(normalized) = 10
             THEN NSSChecksum([arr |-> <<"0">> \o normalized,
                               log |-> <<Correction("Added leading zero", 0, "", "")>>])
             ELSE IF Len(normalized) = 12
             THEN NSSChecksum([arr |-> SubSeq(normalized, 1, 11),
                               log |-> <<Correction("Removed extra digit", 0, "", "")>>])
             ELSE NSSInvalidLength(normalized)

-----------------------------------------------------------------------------
(* Single-field entry point                                                *)

ValidatableFields == {"curp", "rfc", "clabe", "vin", "placas", "nss"}

validateField(f, v) ==
    CASE f = "curp"   -> validateAndFixCURP(v)
      [] f = "rfc"    -> validateAndFixRFC(v)
      [] f = "clabe"  -> validateAndFixCLABE(v)
      [] f = "vin"    -> validateAndFixVIN(v)
      [] f = "placas" -> validateAndFixPlacas(v)
      [] f = "nss"    -> validateAndFixNSS(v)
      [] OTHER        -> Result(FALSE, v, 0, <<>>)

-----------------------------------------------------------------------------
(* Post-processing of an extracted document                                *)

\* the keys of ExtractedData the core reads; an absent key holds ""
DataKeys ==
    {"curp", "rfc", "clabe", "placas", "vin", "nss", "nombre", "razonSocial",
     "sexo", "fechaNacimiento", "vigenciaFin", "vigencia", "anio"}

\* value.includes('***') || value === '***' || value.includes('*')
isIllegible_MarkerOnly(v) == v = <<"*", "*", "*">>

isIllegible(v) ==
    \/ \E i \in 1..(Len(v) - 2) : SubSeq(v, i, i + 2) = <<"*", "*", "*">>
    \/ v = <<"*", "*", "*">>
    \/ Includes(v, "*")

\* what one block of postProcessExtractedData contributes
Piece(key, corrected, corrections, confidence, count, illegibleFields) ==
    [key |-> key, corrected |-> corrected, corrections |-> corrections,
     confidence |-> confidence, count |-> count, illegibleFields |-> illegibleFields]

\* the line  LABEL: "raw" -> "corrected"
CorrectionLine(label, raw, corrected) == [label |-> label, from |-> raw, to |-> corrected]

ValidatedPiece(label, key, raw, validation) ==
    Piece(key, validation.corrected,
          IF validation.corrected # raw
          THEN <<CorrectionLine(label, raw, validation.corrected)>> ELSE <<>>,
          validation.confidence, 1, <<>>)

ValidatedBlock(label, key, raw, validation) ==
    IF raw = <<>> THEN Piece(key, raw, <<>>, 0, 0, <<>>)
    ELSE IF isIllegible(raw) THEN Piece(key, raw, <<>>, 0, 0, <<key>>)
    ELSE ValidatedPiece(label, key, raw, validation)

RECURSIVE CollapseSpaces(_)
\* replace(/\s+/g, ' ')
CollapseSpaces(s) ==
    IF Len(s) < 2 THEN s
    ELSE IF IsWhitespace(s[1]) /\ IsWhitespace(s[2]) THEN CollapseSpaces(Tail(s))
    ELSE <<s[1]>> \o CollapseSpaces(Tail(s))

\* split(' '), first character of each word to upper case, the rest to lower
TitleCase(s) ==
    [i \in DOMAIN s |-> IF i = 1 \/ s[i - 1] = " " THEN ToUpperChar(s[i])
                        ELSE ToLowerChar(s[i])]

\* nombre and razonSocial counted among the validated fields
FormattedBlock_Counted(key, raw, formatted) ==
    IF raw = <<>> THEN Piece(key, raw, <<>>, 0, 0, <<>>)
    ELSE IF isIllegible(raw) THEN Piece(key, raw, <<>>, 0, 0, <<key>>)
    ELSE Piece(key, formatted, <<>>, 0, 1, <<>>)

FormattedBlock(key, raw, formatted) ==
    IF raw = <<>> THEN Piece(key, raw, <<>>, 0, 0, <<>>)
    ELSE IF isIllegible(raw) THEN Piece(key, raw, <<>>, 0, 0, <<key>>)
    ELSE Piece(key, formatted, <<>>, 0, 0, <<>>)

PostBlocks(data) ==
    <<ValidatedBlock("CURP", "curp", data.curp, validateAndFixCURP(data.curp)),
      ValidatedBlock("RFC", "rfc", data.rfc, validateAndFixRFC(data.rfc)),
      ValidatedBlock("CLABE", "clabe", data.clabe, validateAndFixCLABE(data.clabe)),
      ValidatedBlock("Placas", "placas", data.placas, validateAndFixPlacas(data.placas)),
      ValidatedBlock("VIN", "vin", data.vin, validateAndFixVIN(data.vin)),
      ValidatedBlock("NSS", "nss", data.nss, validateAndFixNSS(data.nss)),
      FormattedBlock("nombre", data.nombre, TitleCase(CollapseSpaces(Trim(data.nombre)))),
      FormattedBlock("razonSocial", data.razonSocial,
                     ToUpperCase(CollapseSpaces(Trim(data.razonSocial))))>>

RECURSIVE ConcatOf(_, _)
ConcatOf(blocks, fld) ==
    IF blocks = <<>> THEN <<>> ELSE Head(blocks)[fld] \o ConcatOf(Tail(blocks), fld)

RECURSIVE SumOf(_, _)
SumOf(blocks, fld) ==
    IF blocks = <<>> THEN 0 ELSE Head(blocks)[fld] + SumOf(Tail(blocks), fld)

BlockOf(blocks, key) == blocks[CHOOSE i \in DOMAIN blocks : blocks[i].key = key]

\* totalConfidence / fieldCount as a fraction of hundredths, 0.3 without fields
OverallConfidence(totalConfidence, fieldCount) ==
    IF fieldCount > 0 THEN [num |-> totalConfidence, den |-> fieldCount]
    ELSE [num |-> 30, den |-> 1]

\* only the processed keys copied into correctedData
PostResult_ProcessedOnly(data, blocks) ==
    [correctedData     |-> [k \in DOMAIN data |->
                               IF \E i \in DOMAIN blocks : blocks[i].key = k
                               THEN BlockOf(blocks, k).corrected ELSE <<>>],
     corrections       |-> ConcatOf(blocks, "corrections"),
     overallConfidence |-> OverallConfidence(SumOf(blocks, "confidence"), SumOf(blocks, "count")),
     illegibleFields   |-> ConcatOf(blocks, "illegibleFields")]

PostResult(data, blocks) ==
    [correctedData     |-> [k \in DOMAIN data |->
                               IF \E i \in DOMAIN blocks : blocks[i].key = k
                               THEN BlockOf(blocks, k).corrected ELSE data[k]],
     corrections       |-> ConcatOf(blocks, "corrections"),
     overallConfidence |-> OverallConfidence(SumOf(blocks, "confidence"), SumOf(blocks, "count")),
     illegibleFields   |-> ConcatOf(blocks, "illegibleFields")]

postProcessExtractedData(data) == PostResult(data, PostBlocks(data))

-----------------------------------------------------------------------------
(* Dates: a Date is a day number, NaN an Invalid Date (or null); the clock *)
(* is an instant within day `now`, timeOfDay quarter days after midnight   *)

DaysFromCivil(y, m, d) ==
    LET yy  == IF m <= 2 THEN y - 1 ELSE y
        era == yy \div 400
        yoe == yy - era * 400
        mp  == IF m > 2 THEN m - 3 ELSE m + 9
        doy == (153 * mp + 2) \div 5 + d - 1
    IN  era * 146097 + yoe * 365 + yoe \div 4 - yoe \div 100 + doy - 719468

CivilFromDays(days) ==
    LET z   == days + 719468
        era == z \div 146097
        doe == z - era * 146097
        yoe == (doe - doe \div 1460 + doe \div 36524 - doe \div 146096) \div 365
        doy == doe - (365 * yoe + yoe \div 4 - yoe \div 100)
        mp  == (5 * doy + 2) \div 153
        m   == IF mp < 10 THEN mp + 3 ELSE mp - 9
    IN  [year  |-> yoe + era * 400 + (IF m <= 2 THEN 1 ELSE 0),
         month |-> m,
         day   |-> doy - (153 * mp + 2) \div 5 + 1]

\* new Date(year, monthIndex, day): months and days out of range roll over,
\* a year 0..99 means 1900 + year
NewDate(year, monthIndex, day) ==
    IF year = NaN \/ monthIndex = NaN \/ day = NaN THEN NaN
    ELSE LET full == IF year >= 0 /\ year <= 99 THEN 1900 + year ELSE year
         IN  DaysFromCivil(full + monthIndex \div 12, (monthIndex % 12) + 1, 1) + day - 1

GetMonth(date) == CivilFromDays(date).month - 1

GetFullYear(date) == CivilFromDays(date).year

Minus(a, b) == IF a = NaN \/ b = NaN THEN NaN ELSE a - b

\* date < new Date()
BeforeNow(date) == date # NaN /\ date <= now

\* (now.getTime() - date.getTime()) in quarter days; a year of 365.25 days is 1461
ElapsedQuarterDays(date) == 4 * (now - date) + timeOfDay

\* new Date(string) for the ISO form YYYY-MM-DD, read in a server zone of
\* UTC; the other forms the engine accepts are not modelled and count as
\* an Invalid Date
ParseDateString(s) ==
    IF /\ Len(s) = 10
       /\ \A i \in {1, 2, 3, 4, 6, 7, 9, 10} : IsDigit(s[i])
       /\ s[5] = "-" /\ s[8] = "-"
       /\ ParseInt(SubSeq(s, 6, 7)) \in 1..12
       /\ ParseInt(SubSeq(s, 9, 10)) \in 1..31
    THEN NewDate(ParseInt(SubSeq(s, 1, 4)), ParseInt(SubSeq(s, 6, 7)) - 1,
                 ParseInt(SubSeq(s, 9, 10)))
    ELSE NaN

-----------------------------------------------------------------------------
(* Fraud detection helpers                                                 *)

\* every year read as one of the twentieth century
extractBirthDateFromCURP_LastCentury(curp) ==
    IF curp = <<>> \/ Len(curp) < 10 THEN NaN
    ELSE LET yearNum == ParseInt(Slice(curp, 4, 6))
             month   == ParseInt(Slice(curp, 6, 8))
             day     == ParseInt(Slice(curp, 8, 10))
             year    == IF yearNum = NaN THEN NaN ELSE 1900 + yearNum
             date    == NewDate(year, Minus(month, 1), day)
         IN  IF date = NaN THEN NaN
             ELSE IF GetMonth(date) # month - 1 THEN NaN
             ELSE date

extractBirthDateFromCURP(curp) ==
    IF curp = <<>> \/ Len(curp) < 10 THEN NaN
    ELSE LET yearNum == ParseInt(Slice(curp, 4, 6))
             month   == ParseInt(Slice(curp, 6, 8))
             day     == ParseInt(Slice(curp, 8, 10))
             year    == IF yearNum = NaN THEN NaN
                        ELSE IF yearNum <= 30 THEN 2000 + yearNum ELSE 1900 + yearNum
             date    == NewDate(year, Minus(month, 1), day)
         IN  IF date = NaN THEN NaN
             ELSE IF GetMonth(date) # month - 1 THEN NaN
             ELSE date

extractGenderFromCURP(curp) ==
    IF curp = <<>> \/ Len(curp) < 11 THEN "null"
    ELSE IF curp[11] \in {"H", "M"} THEN curp[11] ELSE "null"

extractStateFromCURP(curp) ==
    IF curp = <<>> \/ Len(curp) < 13 THEN <<>> ELSE Slice(curp, 11, 13)

\* the table of the analyzer without the code of those born abroad
FRAUD_VALID_STATE_CODES_Domestic ==
    {<<"A", "S">>, <<"B", "C">>, <<"B", "S">>, <<"C", "C">>, <<"C", "L">>,
     <<"C", "M">>, <<"C", "S">>, <<"C", "H">>, <<"D", "F">>, <<"D", "G">>,
     <<"G", "T">>, <<"G", "R">>, <<"H", "G">>, <<"J", "C">>, <<"M", "C">>,
     <<"M", "N">>, <<"M", "S">>, <<"N", "T">>, <<"N", "L">>, <<"O", "C">>,
     <<"P", "L">>, <<"Q", "T">>, <<"Q", "R">>, <<"S", "P">>, <<"S", "L">>,
     <<"S", "R">>, <<"T", "C">>, <<"T", "S">>, <<"T", "L">>, <<"V", "Z">>,
     <<"Y", "N">>, <<"Z", "S">>}

FRAUD_VALID_STATE_CODES ==
    {<<"A", "S">>, <<"B", "C">>, <<"B", "S">>, <<"C", "C">>, <<"C", "L">>,
     <<"C", "M">>, <<"C", "S">>, <<"C", "H">>, <<"D", "F">>, <<"D", "G">>,
     <<"G", "T">>, <<"G", "R">>, <<"H", "G">>, <<"J", "C">>, <<"M", "C">>,
     <<"M", "N">>, <<"M", "S">>, <<"N", "T">>, <<"N", "L">>, <<"O", "C">>,
     <<"P", "L">>, <<"Q", "T">>, <<"Q", "R">>, <<"S", "P">>, <<"S", "L">>,
     <<"S", "R">>, <<"T", "C">>, <<"T", "S">>, <<"T", "L">>, <<"V", "Z">>,
     <<"Y", "N">>, <<"Z", "S">>, <<"N", "E">>}

DigitsAt(s, i, n) == i + n - 1 <= Len(s) /\ \A j \in i..(i + n - 1) : IsDigit(s[j])

\* the places where each date format of isExpired matches
MatchesISO(s, i) ==
    /\ i + 9 <= Len(s)
    /\ DigitsAt(s, i, 4) /\ s[i + 4] = "-"
    /\ DigitsAt(s, i + 5, 2) /\ s[i + 7] = "-"
    /\ DigitsAt(s, i + 8, 2)

MatchesDMY(s, i) ==
    /\ i + 9 <= Len(s)
    /\ DigitsAt(s, i, 2) /\ s[i + 2] = "/"
    /\ DigitsAt(s, i + 3, 2) /\ s[i + 5] = "/"
    /\ DigitsAt(s, i + 6, 4)

MatchesYear(s, i) == DigitsAt(s, i, 4)

\* the first place a format matches, 0 when it matches nowhere
FirstMatch(s, Matches(_, _)) ==
    IF \E i \in DOMAIN s : Matches(s, i)
    THEN CHOOSE i \in DOMAIN s : Matches(s, i) /\ \A j \in 1..(i - 1) : ~Matches(s, j)
    ELSE 0

Int2(s, i) == ParseInt(SubSeq(s, i, i + 1))

Int4(s, i) == ParseInt(SubSeq(s, i, i + 3))

ISODateAt(s, i) == NewDate(Int4(s, i), Int2(s, i + 5) - 1, Int2(s, i + 8))

DMYDateAt(s, i) == NewDate(Int4(s, i + 6), Int2(s, i + 3) - 1, Int2(s, i))

EndOfYearAt(s, i) == NewDate(Int4(s, i), 11, 31)

isExpired(dateStr) ==
    IF dateStr = <<>> THEN FALSE
    ELSE IF FirstMatch(dateStr, MatchesISO) # 0
    THEN BeforeNow(ISODateAt(dateStr, FirstMatch(dateStr, MatchesISO)))
    ELSE IF FirstMatch(dateStr, MatchesDMY) # 0
    THEN BeforeNow(DMYDateAt(dateStr, FirstMatch(dateStr, MatchesDMY)))
    ELSE IF FirstMatch(dateStr, MatchesYear) # 0
    THEN BeforeNow(EndOfYearAt(dateStr, FirstMatch(dateStr, MatchesYear)))
    ELSE FALSE

isFutureDate(dateStr, allowedFutureYears) ==
    IF dateStr = <<>> THEN FALSE
    ELSE IF FirstMatch(dateStr, MatchesYear) = 0 THEN FALSE
    ELSE IF Int4(dateStr, FirstMatch(dateStr, MatchesYear)) = 0 THEN FALSE
    ELSE Int4(dateStr, FirstMatch(dateStr, MatchesYear))
            > GetFullYear(now) + allowedFutureYears

StartsWith(s, prefix) == Len(s) >= Len(prefix) /\ SubSeq(s, 1, Len(prefix)) = prefix

IncludesText(s, text) ==
    \E i \in 1..(Len(s) - Len(text) + 1) : SubSeq(s, i, i + Len(text) - 1) = text

TestNamePatterns ==
    {<<"T", "E", "S", "T">>, <<"P", "R", "U", "E", "B", "A">>,
     <<"E", "J", "E", "M", "P", "L", "O">>, <<"D", "E", "M", "O">>,
     <<"S", "A", "M", "P", "L", "E">>, <<"X", "X", "X">>, <<"A", "A", "A", "A">>,
     <<"J", "U", "A", "N", " ", "P", "E", "R", "E", "Z">>,
     <<"F", "U", "L", "A", "N", "O">>, <<"M", "E", "N", "G", "A", "N", "O">>,
     <<"Z", "U", "T", "A", "N", "O">>,
     <<"N", "O", "M", "B", "R", "E">>, <<"N", "A", "M", "E">>,
     <<"F", "I", "R", "S", "T">>, <<"L", "A", "S", "T">>}

\* the reason isNameSuspicious gives, "" when the name is not suspicious
NameSuspicion(normalized) ==
    IF \E p \in TestNamePatterns : StartsWith(normalized, p)
    THEN "Appears to be a test/placeholder name"
    ELSE IF Len(normalized) >= 4 /\ \A i \in 2..4 : normalized[i] = normalized[1]
    THEN "Repeated characters detected"
    ELSE IF Len(normalized) < 5 THEN "Name is unusually short"
    ELSE ""

isNameSuspicious(name) ==
    IF name = <<>> THEN "" ELSE NameSuspicion(Trim(ToUpperCase(name)))

-----------------------------------------------------------------------------
(* detectFraud: each rule yields its indicators with their score           *)

Indicator(type, severity, fld, message) ==
    [type |-> type, severity |-> severity, field |-> fld, message |-> message]

Hit(type, severity, fld, message, score) ==
    [indicator |-> Indicator(type, severity, fld, message), score |-> score]

ImageQualityRule(imageQuality) ==
    IF imageQuality = "mala" \/ imageQuality = "ilegible"
    THEN <<Hit("too_many_illegible", "warning", "",
               "Poor image quality may indicate intentional obscuring", 15)>>
    ELSE <<>>

IllegibleFieldsRule(illegibleFields) ==
    IF Len(illegibleFields) >= 3
    THEN <<Hit("too_many_illegible", "warning", "",
               "Multiple illegible fields detected", 10 * Len(illegibleFields))>>
    ELSE <<>>

StateCodeRule(curp) ==
    IF extractStateFromCURP(curp) # <<>>
          /\ extractStateFromCURP(curp) \notin FRAUD_VALID_STATE_CODES
    THEN <<Hit("state_code_mismatch", "error", "curp", "Invalid state code in CURP", 30)>>
    ELSE <<>>

\* the initial of sexo taken as written, without toUpperCase
ExpectedGender_CaseSensitive(sexo) ==
    IF StartsWith(sexo, <<"H">>) \/ StartsWith(sexo, <<"M">>)
    THEN sexo[1]
    ELSE "null"

ExpectedGender(sexo) ==
    IF StartsWith(ToUpperCase(sexo), <<"H">>) \/ StartsWith(ToUpperCase(sexo), <<"M">>)
    THEN ToUpperCase(sexo)[1]
    ELSE "null"

GenderRule(curp, sexo) ==
    IF /\ extractGenderFromCURP(curp) # "null"
       /\ sexo # <<>>
       /\ ExpectedGender(sexo) # "null"
       /\ extractGenderFromCURP(curp) # ExpectedGender(sexo)
    THEN <<Hit("gender_mismatch", "error", "curp",
               "Gender in CURP does not match document", 25)>>
    ELSE <<>>

\* the if / else if chain on the age, in quarter days since birthDate
AgeRule(elapsed, documentType) ==
    IF elapsed < 0
    THEN <<Hit("future_date", "critical", "curp",
               "Birth date in CURP is in the future", 50)>>
    ELSE IF elapsed > 130 * 1461
    THEN <<Hit("impossible_date", "critical", "curp",
               "Birth date in CURP indicates impossible age", 50)>>
    ELSE IF elapsed < 16 * 1461 /\ documentType = <<"l", "i", "c", "e", "n", "c", "i", "a">>
    THEN <<Hit("age_inconsistency", "error", "curp",
               "Person is too young for a driver's license", 30)>>
    ELSE <<>>

Abs(n) == IF n < 0 THEN 0 - n ELSE n

BirthDateCrossRule(birthDate, fechaNacimiento) ==
    IF /\ fechaNacimiento # <<>>
       /\ ParseDateString(fechaNacimiento) # NaN
       /\ Abs(birthDate - ParseDateString(fechaNacimiento)) > 1
    THEN <<Hit("data_inconsistency", "error", "fechaNacimiento",
               "Birth date does not match CURP", 35)>>
    ELSE <<>>

BirthDateRules(birthDate, documentType, fechaNacimiento) ==
    IF birthDate = NaN THEN <<>>
    ELSE AgeRule(ElapsedQuarterDays(birthDate), documentType)
            \o BirthDateCrossRule(birthDate, fechaNacimiento)

CURPRules(extractedData, documentType) ==
    IF extractedData.curp # <<>> /\ ~Includes(extractedData.curp, "*")
    THEN StateCodeRule(extractedData.curp)
            \o GenderRule(extractedData.curp, extractedData.sexo)
            \o BirthDateRules(extractBirthDateFromCURP(extractedData.curp),
                              documentType, extractedData.fechaNacimiento)
    ELSE <<>>

RFCRule(rfc, curp) ==
    IF /\ rfc # <<>> /\ curp # <<>>
       /\ ~Includes(rfc, "*") /\ ~Includes(curp, "*")
       /\ Len(rfc) = 13 /\ Len(curp) = 18
       /\ Slice(rfc, 0, 10) # Slice(curp, 0, 10)
    THEN <<Hit("cross_validation_failed", "error", "rfc", "RFC does not match CURP", 40)>>
    ELSE <<>>

ExpiredRule(expirationField) ==
    IF isExpired(expirationField)
    THEN <<Hit("expired_document", "warning", "vigencia",
               "Document appears to be expired", 20)>>
    ELSE <<>>

FarFutureRule(expirationField) ==
    IF isFutureDate(expirationField, 20)
    THEN <<Hit("future_date", "error", "vigencia",
               "Expiration date is suspiciously far in the future", 25)>>
    ELSE <<>>

ExpirationRules(expirationField) ==
    IF expirationField # <<>> /\ ~Includes(expirationField, "*")
    THEN ExpiredRule(expirationField) \o FarFutureRule(expirationField)
    ELSE <<>>

ExpirationField(extractedData) ==
    IF extractedData.vigenciaFin # <<>> THEN extractedData.vigenciaFin
    ELSE extractedData.vigencia

\* a suspicious name weighed as a minor finding
NameRule_Minor(nombre) ==
    IF nombre # <<>> /\ ~Includes(nombre, "*") /\ isNameSuspicious(nombre) # ""
    THEN <<Hit("name_format_suspicious", "warning", "nombre",
               "Name format appears suspicious", 10)>>
    ELSE <<>>

NameRule(nombre) ==
    IF nombre # <<>> /\ ~Includes(nombre, "*") /\ isNameSuspicious(nombre) # ""
    THEN <<Hit("name_format_suspicious", "warning", "nombre",
               "Name format appears suspicious", 20)>>
    ELSE <<>>

VINLengthRule(vin) ==
    IF Len(vin) # 17
    THEN <<Hit("invalid_format", "error", "vin", "VIN has incorrect length", 25)>>
    ELSE <<>>

\* /[IOQ]/i
VINLettersRule(vin) ==
    IF \E i \in DOMAIN vin : vin[i] \in {"I", "O", "Q", "i", "o", "q"}
    THEN <<Hit("invalid_format", "warning", "vin",
               "VIN contains invalid characters (I, O, or Q)", 15)>>
    ELSE <<>>

VINRules(vin) ==
    IF vin # <<>> /\ ~Includes(vin, "*")
    THEN VINLengthRule(vin) \o VINLettersRule(vin)
    ELSE <<>>

YearRule(anio) ==
    IF /\ anio # <<>> /\ ~Includes(anio, "*")
       /\ ParseInt(anio) # NaN
       /\ (ParseInt(anio) < 1900 \/ ParseInt(anio) > GetFullYear(now) + 1)
    THEN <<Hit("impossible_date", "error", "anio", "Vehicle year is impossible", 30)>>
    ELSE <<>>

IsVehicleDocument(documentType) ==
    \/ IncludesText(ToLowerCase(documentType), <<"c", "i", "r", "c", "u", "l", "a", "c", "i", "o", "n">>)
    \/ IncludesText(ToLowerCase(documentType), <<"p", "o", "l", "i", "z", "a">>)
    \/ IncludesText(ToLowerCase(documentType), <<"v", "e", "h", "i", "c", "u", "l", "o">>)

\* the vehicle rules applied whatever the document type
VehicleRules_AnyDocument(extractedData, documentType) ==
    VINRules(extractedData.vin) \o YearRule(extractedData.anio)

VehicleRules(extractedData, documentType) ==
    IF IsVehicleDocument(documentType)
    THEN VINRules(extractedData.vin) \o YearRule(extractedData.anio)
    ELSE <<>>

FraudHits(extractedData, documentType, illegibleFields, imageQuality) ==
    ImageQualityRule(imageQuality)
        \o IllegibleFieldsRule(illegibleFields)
        \o CURPRules(extractedData, documentType)
        \o RFCRule(extractedData.rfc, extractedData.curp)
        \o ExpirationRules(ExpirationField(extractedData))
        \o NameRule(extractedData.nombre)
        \o VehicleRules(extractedData, documentType)

RECURSIVE SumScores(_)
SumScores(hits) == IF hits = <<>> THEN 0 ELSE Head(hits).score + SumScores(Tail(hits))

\* what each rule group of detectFraud pushes, in the order of the code
FraudStages(extractedData, documentType, illegibleFields, imageQuality) ==
    <<ImageQualityRule(imageQuality),
      IllegibleFieldsRule(illegibleFields),
      CURPRules(extractedData, documentType),
      RFCRule(extractedData.rfc, extractedData.curp),
      ExpirationRules(ExpirationField(extractedData)),
      NameRule(extractedData.nombre),
      VehicleRules(extractedData, documentType)>>

\* the bands with "high" starting at 50
RiskLevel_HighFrom50(riskScore) ==
    IF riskScore >= 70 THEN "critical"
    ELSE IF riskScore >= 50 THEN "high"
    ELSE IF riskScore >= 20 THEN "medium"
    ELSE "low"

RiskLevel(riskScore) ==
    IF riskScore >= 70 THEN "critical"
    ELSE IF riskScore >= 45 THEN "high"
    ELSE IF riskScore >= 20 THEN "medium"
    ELSE "low"

LevelRecommendations(riskLevel) ==
    IF riskLevel = "critical"
    THEN <<"Document should be manually reviewed before acceptance",
           "Request additional supporting documentation">>
    ELSE IF riskLevel = "high"
    THEN <<"Consider requesting a clearer image or scan",
           "Cross-reference with additional ID">>
    ELSE IF riskLevel = "medium"
    THEN <<"Review flagged fields for accuracy">>
    ELSE <<>>

ExpiredRecommendation(indicators) ==
    IF \E i \in DOMAIN indicators : indicators[i].type = "expired_document"
    THEN <<"Request updated, non-expired document">>
    ELSE <<>>

IndicatorOf(hit) == hit.indicator

FraudAnalysis(indicators, riskScore, riskLevel) ==
    [isAuthentic     |-> riskLevel # "critical" /\ riskLevel # "high",
     riskLevel       |-> riskLevel,
     riskScore       |-> riskScore,
     fraudIndicators |-> indicators,
     recommendations |-> LevelRecommendations(riskLevel) \o ExpiredRecommendation(indicators)]

FraudVerdict(hits, riskScore) == FraudAnalysis(MapSeq(hits, IndicatorOf), riskScore, RiskLevel(riskScore))

FraudReport(hits) == FraudVerdict(hits, Min(100, SumScores(hits)))

detectFraud(extractedData, documentType, illegibleFields, imageQuality) ==
    FraudReport(FraudHits(extractedData, documentType, illegibleFields, imageQuality))

QuickTestNames ==
    {<<"T", "E", "S", "T">>, <<"P", "R", "U", "E", "B", "A">>,
     <<"E", "J", "E", "M", "P", "L", "O">>, <<"X", "X", "X">>}

\* the checks quickFraudCheck makes on nombre and on curp; TRUE is a pass
QuickNameCheck(nombre) ==
    ~(nombre # <<>> /\ \E p \in QuickTestNames : StartsWith(ToUpperCase(nombre), p))

QuickCURPCheck(curp) ==
    ~(/\ curp # <<>>
      /\ Len(curp) = 18
      /\ ~Includes(curp, "*")
      /\ \/ curp[11] \notin {"H", "M"}
         \/ Slice(curp, 11, 13) \notin FRAUD_VALID_STATE_CODES)

quickFraudCheck(extractedData) ==
    QuickNameCheck(extractedData.nombre) /\ QuickCURPCheck(extractedData.curp)

-----------------------------------------------------------------------------
(* The validate-field service: the OCR stage hands over a value, the       *)
(* client validates it and validates the corrected value once more         *)

MaxCut == 2

MaxExtra == 2

MaxMisreads == 1

\* what the OCR stage writes for a character it misreads or cannot read
Glyphs == {"O", "0", "*", "."}

PrintedValue(f) ==
    CASE f = "curp"   -> <<"P", "E", "G", "J", "8", "5", "O", "1", "O", "1",
                           "H", "D", "F", "R", "R", "L", "0", "9">>
      [] f = "rfc"    -> <<"P", "E", "G", "J", "8", "5", "0", "1", "0", "1",
                           "A", "B", "1">>
      [] f = "clabe"  -> <<"0", "1", "2", "1", "8", "0", "0", "0", "1",
                           "2", "3", "4", "5", "6", "7", "8", "9", "9">>
      [] f = "vin"    -> <<"1", "H", "G", "C", "M", "8", "2", "6", "3", "3",
                           "A", "1", "I", "9", "O", "1", "8">>
      [] f = "placas" -> <<"A", "B", "C", "1", "2", "3", "4">>
      [] f = "nss"    -> <<"7", "2", "8", "1", "6", "4", "0", "5", "1", "2", "9">>

Padding(k) == [i \in 1..k |-> "7"]

\* the printed value as the OCR stage may frame it: cut short or run on
Framings(printed) ==
    {SubSeq(printed, 1, Len(printed) - k) : k \in 0..MaxCut}
        \cup {printed \o Padding(k) : k \in 1..MaxExtra}

Null == [valid |-> FALSE, corrected |-> <<>>, confidence |-> -1, corrections |-> <<>>]

\* the variables of the other services while this one is being exercised
NoAnalysis == [riskScore |-> -1]

NoReply == [replied |-> FALSE]

NoResult == [returned |-> FALSE]

IdleValidate ==
    /\ field = "curp"
    /\ value = <<>>
    /\ misreads = 0
    /\ outcome = Null
    /\ again = Null

IdleFraud ==
    /\ extracted = <<>>
    /\ declared = <<>>
    /\ illegible = <<>>
    /\ quality = ""
    /\ analysis = NoAnalysis
    /\ repeated = NoAnalysis
    /\ ticks = 0

IdleAnalyze ==
    /\ parsed = NoReply
    /\ post = NoResult
    /\ answer = NoResult

IdleLibrary ==
    /\ mode = ""
    /\ reading = <<>>
    /\ calls = <<>>

\* the clock at noon, no helper called
IdleScreen ==
    /\ timeOfDay = 2
    /\ born = NoResult
    /\ screened = NoResult

Today == DaysFromCivil(2026, 11, 3)

InitValidate ==
    /\ pc = "input"
    /\ now = Today
    /\ IdleScreen
    /\ field \in ValidatableFields
    /\ value \in Framings(PrintedValue(field))
    /\ misreads = 0
    /\ outcome = Null
    /\ again = Null
    /\ IdleFraud
    /\ IdleAnalyze
    /\ IdleLibrary

Misread(i, g) ==
    /\ pc = "input"
    /\ misreads < MaxMisreads
    /\ i \in DOMAIN value
    /\ value[i] # g
    /\ value' = [value EXCEPT ![i] = g]
    /\ misreads' = misreads + 1
    /\ UNCHANGED <<pc, now, field, outcome, again, fraudVars, analyzeVars,
                   libraryVars, screenVars>>

ValidateFieldRequest ==
    /\ pc = "input"
    /\ outcome' = validateField(field, value)
    /\ pc' = "validated"
    /\ UNCHANGED <<now, field, value, misreads, again, fraudVars, analyzeVars,
                   libraryVars, screenVars>>

RevalidateRequest ==
    /\ pc = "validated"
    /\ again' = validateField(field, outcome.corrected)
    /\ pc' = "revalidated"
    /\ UNCHANGED <<now, field, value, misreads, outcome, fraudVars, analyzeVars,
                   libraryVars, screenVars>>

NextValidate ==
    \/ \E i \in DOMAIN value, g \in Glyphs : Misread(i, g)
    \/ ValidateFieldRequest
    \/ RevalidateRequest

SpecValidate == InitValidate /\ [][NextValidate]_vars

-----------------------------------------------------------------------------
(* Claims about the validate-field service                                 *)

Validated == pc \in {"validated", "revalidated"}

DocumentedCURP == PrintedValue("curp")

ChecksummedCURP ==
    <<"P", "E", "G", "J", "8", "5", "0", "1", "0", "1",
      "H", "D", "F", "R", "R", "L", "0", "4">>

RECURSIVE WeightedIndexSum(_, _)
\* sum over positions i = 0..n-1 of (dictionary index of s[i]) * (18 - i)
WeightedIndexSum(s, n) ==
    IF n = 0 THEN 0
    ELSE WeightedIndexSum(s, n - 1) + IndexOf(CURPDictionary, s[n]) * (19 - n)

OfficialCURPDigit(s17) == DigitChar((10 - (WeightedIndexSum(s17, 17) % 10)) % 10)

HasDigitPosition(c) == Len(c) >= 18 /\ \A i \in 1..17 : c[i] \in Range(CURPDictionary)

RawCURP == CURPLengthRepair(Clean(value)).arr

C2_CorrectionIdempotent ==
    pc = "revalidated" => again.corrected = outcome.corrected

\* C4 (as claimed): validateField returns a value containing '*' unchanged.
C4_IllegibleValueUnchanged ==
    (Validated /\ Includes(value, "*")) => outcome.corrected = value

-----------------------------------------------------------------------------
(* The fraud analyzer: detectFraud is called on an extracted document, and *)
(* called a second time with the same arguments, possibly years later      *)

MaxFraudFields == 2

MaxTicks == 1

\* the fields detectFraud reads
FraudKeys ==
    {"curp", "rfc", "sexo", "fechaNacimiento", "vigenciaFin", "vigencia",
     "nombre", "vin", "anio"}

AdultCURP == ChecksummedCURP

BadStateCURP == <<"P", "E", "G", "J", "8", "5", "0", "1", "0", "1", "H", "X",
                  "X", "R", "R", "L", "0", "5">>

FutureCURP == <<"P", "E", "G", "J", "3", "0", "0", "1", "0", "1", "H", "D",
                "F", "R", "R", "L", "0", "4">>

ChildCURP == <<"P", "E", "G", "J", "1", "5", "0", "1", "0", "1", "M", "D",
               "F", "R", "R", "L", "0", "4">>

\* values the extraction stage may hand over for a field
FieldValues(k) ==
    CASE k = "curp" ->
           {AdultCURP, BadStateCURP, FutureCURP, ChildCURP,
            <<"P", "E", "G", "J", "8", "5", "*", "1", "*", "1", "H", "D",
              "F", "R", "R", "L", "0", "9">>,
            <<"P", "E", "G", "J", "8", "5", "0", "2", "3", "0", "H", "D",
              "F", "R", "R", "L", "0", "4">>}
      [] k = "rfc" ->
           {<<"P", "E", "G", "J", "8", "5", "0", "1", "0", "1", "A", "B",
               "1">>,
            <<"X", "A", "X", "X", "0", "1", "0", "1", "0", "1", "0", "0",
               "0">>}
      [] k = "sexo" ->
           {<<"H">>,
            <<"m", "u", "j", "e", "r">>}
      [] k = "fechaNacimiento" ->
           {<<"1", "9", "8", "5", "-", "0", "1", "-", "0", "1">>,
            <<"1", "9", "8", "5", "-", "0", "1", "-", "0", "3">>}
      [] k = "vigenciaFin" ->
           {<<"2", "0", "2", "0", "-", "1", "2", "-", "3", "1">>,
            <<"2", "0", "2", "7", "-", "0", "6", "-", "3", "0">>,
            <<"2", "0", "5", "0", "-", "0", "1", "-", "0", "1">>}
      [] k = "vigencia" ->
           {<<"3", "1", "/", "1", "2", "/", "2", "0", "2", "6">>,
            <<"2", "0", "9", "9">>}
      [] k = "nombre" ->
           {<<"M", "a", "r", "i", "a", " ", "L", "o", "p", "e", "z">>,
            <<"j", "u", "a", "n", " ", "p", "e", "r", "e", "z">>}
      [] k = "vin" ->
           {<<"1", "H", "G", "C", "M", "8", "2", "6", "3", "3", "A", "1",
               "1", "9", "0", "1", "8">>,
            <<"1", "H", "G", "C", "M", "8", "2", "6", "3", "3", "A", "1",
               "I", "9", "O", "1", "8">>,
            <<"1", "H", "G", "C", "M", "8">>}
      [] k = "anio" ->
           {<<"2", "0", "2", "0">>,
            <<"1", "8", "5", "0">>,
            <<"2", "0", "2", "8">>}

Licencia == <<"l", "i", "c", "e", "n", "c", "i", "a">>

DocumentTypes ==
    {Licencia,
     <<"L", "i", "c", "e", "n", "c", "i", "a", " ", "d", "e", " ", "C", "o",
       "n", "d", "u", "c", "i", "r">>,
     <<"c", "i", "r", "c", "u", "l", "a", "c", "i", "o", "n">>,
     <<"i", "n", "e">>}

\* an ExtractedData with the fields chosen present and every other one absent
ExtractedData(chosen) == [k \in DataKeys |-> IF k \in DOMAIN chosen THEN chosen[k] ELSE <<>>]

Choices(keys) == {c \in [keys -> UNION {FieldValues(k) : k \in keys}] :
                     \A k \in keys : c[k] \in FieldValues(k)}

InitFraud ==
    /\ pc = "input"
    /\ now = Today
    /\ IdleScreen
    /\ \E keys \in SUBSET FraudKeys :
          /\ Cardinality(keys) <= MaxFraudFields
          /\ \E chosen \in Choices(keys) : extracted = ExtractedData(chosen)
    /\ declared \in DocumentTypes
    /\ illegible \in {<<>>, <<"clabe", "placas", "nss">>}
    /\ quality \in {"buena", "mala"}
    /\ analysis = NoAnalysis
    /\ repeated = NoAnalysis
    /\ ticks = 0
    /\ IdleValidate
    /\ IdleAnalyze
    /\ IdleLibrary

DetectFraudCall ==
    /\ pc = "input"
    /\ analysis' = detectFraud(extracted, declared, illegible, quality)
    /\ pc' = "analysed"
    /\ UNCHANGED <<now, extracted, declared, illegible, quality, repeated, ticks,
                   validateVars, analyzeVars, libraryVars, screenVars>>

\* a year goes by between the two calls
Tick ==
    /\ pc = "analysed"
    /\ ticks < MaxTicks
    /\ now' = NewDate(GetFullYear(now) + 1, GetMonth(now), CivilFromDays(now).day)
    /\ ticks' = ticks + 1
    /\ UNCHANGED <<pc, extracted, declared, illegible, quality, analysis, repeated,
                   validateVars, analyzeVars, libraryVars, screenVars>>

DetectFraudAgain ==
    /\ pc = "analysed"
    /\ repeated' = detectFraud(extracted, declared, illegible, quality)
    /\ pc' = "repeated"
    /\ UNCHANGED <<now, extracted, declared, illegible, quality, analysis, ticks,
                   validateVars, analyzeVars, libraryVars, screenVars>>

NextFraud ==
    \/ DetectFraudCall
    \/ Tick
    \/ DetectFraudAgain

SpecFraud == InitFraud /\ [][NextFraud]_vars

-----------------------------------------------------------------------------
(* Claims about the fraud analyzer                                         *)

Analysed == pc \in {"analysed", "repeated"}

Legible(v) == v # <<>> /\ ~Includes(v, "*")

IndicatorTypes(report) == {report.fraudIndicators[i].type : i \in DOMAIN report.fraudIndicators}

\* the trigger of the underage rule as the rule table states it
UnderageTriggered ==
    /\ Legible(extracted.curp)
    /\ extractBirthDateFromCURP(extracted.curp) # NaN
    /\ ElapsedQuarterDays(extractBirthDateFromCURP(extracted.curp)) < 16 * 1461
    /\ declared = Licencia

\* C5 (as claimed): every rule whose trigger holds adds its indicator and
\* its score, whatever other rule triggered: a CURP birth date in the
\* future on a 'licencia' document yields the future-birth-date indicator
\* and the underage indicator.
C5_RulesIndependent ==
    (pc = "analysed" /\ ticks = 0 /\ UnderageTriggered) =>
        "age_inconsistency" \in IndicatorTypes(analysis)

\* C6: every report of detectFraud has an integer riskScore in 0..100, the
\* riskLevel of its band (critical from 70, high from 45, medium from 20,
\* low below) and isAuthentic exactly when riskScore < 45.
C6_RiskBands ==
    (pc = "analysed" /\ ticks = 0) =>
        /\ analysis.riskScore \in 0..100
        /\ analysis.riskLevel = "critical" <=> analysis.riskScore >= 70
        /\ analysis.riskLevel = "high"
              <=> (45 <= analysis.riskScore /\ analysis.riskScore < 70)
        /\ analysis.riskLevel = "medium"
              <=> (20 <= analysis.riskScore /\ analysis.riskScore < 45)
        /\ analysis.riskLevel = "low" <=> analysis.riskScore < 20
        /\ analysis.isAuthentic <=> analysis.riskLevel \notin {"high", "critical"}
        /\ analysis.isAuthentic <=> analysis.riskScore < 45

\* a report of exactly 45, the lowest score that is "high"
C6_Witness ==
    /\ pc = "analysed"
    /\ ticks = 0
    /\ analysis.riskScore = 45
    /\ analysis.riskLevel = "high"
    /\ ~analysis.isAuthentic

OnlyPresent(keys) == \A k \in DataKeys : extracted[k] # <<>> <=> k \in keys

\* a CURP with a state code outside the table and a contradicting sexo
\* field, and nothing else that a rule looks at
BadStateAndGenderOnly ==
    /\ OnlyPresent({"curp", "sexo"})
    /\ Len(extracted.curp) = 18
    /\ ~Includes(extracted.curp, "*")
    /\ SubSeq(extracted.curp, 12, 13) \notin VALID_STATE_CODES
    /\ extracted.curp[11] \in {"H", "M"}
    /\ ToUpperChar(extracted.sexo[1]) \in {"H", "M"} \ {extracted.curp[11]}
    /\ extractBirthDateFromCURP(extracted.curp) # NaN =>
          /\ extractBirthDateFromCURP(extracted.curp) <= now
          /\ ElapsedQuarterDays(extractBirthDateFromCURP(extracted.curp)) <= 130 * 1461
          /\ ElapsedQuarterDays(extractBirthDateFromCURP(extracted.curp)) >= 16 * 1461
    /\ quality \notin {"mala", "ilegible"}
    /\ Len(illegible) < 3

\* C7: an invalid state code in the CURP and a sexo field contradicting the
\* CURP's gender, with no other rule triggered, give riskScore 55,
\* riskLevel 'high' and isAuthentic false.
C7_StateAndGenderMismatch ==
    (pc = "analysed" /\ ticks = 0 /\ BadStateAndGenderOnly) =>
        /\ analysis.riskScore = 55
        /\ analysis.riskLevel = "high"
        /\ ~analysis.isAuthentic
        /\ Len(analysis.fraudIndicators) = 2
        /\ IndicatorTypes(analysis) = {"state_code_mismatch", "gender_mismatch"}

C7_Witness ==
    /\ pc = "analysed"
    /\ ticks = 0
    /\ BadStateAndGenderOnly
    /\ extracted.sexo = <<"m", "u", "j", "e", "r">>
    /\ analysis.riskScore = 55

NoDatedField ==
    /\ ~Legible(extracted.curp)
    /\ ~Legible(ExpirationField(extracted))
    /\ ~(IsVehicleDocument(declared) /\ Legible(extracted.anio))

-----------------------------------------------------------------------------
(* Document analysis: analyzeDocument (image) and analyzeDocumentFromText  *)
(* (PDF) from the AI stage's parsed answer to the returned result. The     *)
(* result's reason, confidence, timestamp, processingTime, matchesExpected,*)
(* ocrEngine and visionConfidence are left out, as are the AI's own        *)
(* crossValidationWarnings and ocrWarnings.                                *)

MaxRawFields == 3

\* values the AI stage may report for a field
RawValues(k) ==
    CASE k = "curp" ->
           {DocumentedCURP,
            <<"P", "E", "G", "J", "8", "5", "*", "1", "O", "1", "H", "D",
              "F", "R", "R", "L", "0", "9">>,
            <<"*", "*", "*">>}
      [] k = "rfc" ->
           {<<"P", "E", "G", "J", "8", "5", "0", "1", "0", "1", "A", "B",
               "1">>,
            <<"P", "E", "G", "J", "8", "5", "*", "*", "0", "1", "A", "B",
               "1">>}
      [] k = "clabe" ->
           {PrintedValue("clabe"), <<"*", "*", "*">>}
      [] k = "placas" ->
           {<<"A", "B", "C", "-", "1", "2", "3", "4">>,
            <<"A", "*", "C", "-", "1", "2", "3", "4">>}
      [] k = "vin" ->
           {PrintedValue("vin"), <<"*", "*", "*">>}
      [] k = "nss" ->
           {<<"7", "2", "8", "1", "6", "4", "0", "5", "1", "2", "9">>,
            <<"7", "2", "8", "1", "6", "4", "0", "5", "1", "2", "*">>}
      [] k = "nombre" ->
           {<<" ", "a", "n", "a", " ", " ", "M", "A", "R", "I", "A", " ",
               "l", "o", "p", "e", "z">>,
            <<"J", "U", "*", "*", " ", "P", "E", "R", "E", "Z">>}
      [] k = "razonSocial" ->
           {<<"A", "c", "m", "e", " ", " ", "s", "a", " ", "d", "e", " ",
               "c", "v">>,
            <<"N", "/", "A">>}
      [] k = "vigenciaFin" ->
           {<<"2", "0", "2", "0", "-", "1", "2", "-", "3", "1">>,
            <<"N", "o", " ", "v", "i", "s", "i", "b", "l", "e">>}

RawKeys ==
    {"curp", "rfc", "clabe", "placas", "vin", "nss", "nombre", "razonSocial",
     "vigenciaFin"}

RawChoices(keys) == {c \in [keys -> UNION {RawValues(k) : k \in keys}] :
                        \A k \in keys : c[k] \in RawValues(k)}

\* the pairs imageQuality, textQuality of the answer, "" when not given
ReportedQualities == {<<"ilegible", "">>, <<"", "mala">>, <<"", "">>}

InitAnalyze ==
    /\ pc = "input"
    /\ now = Today
    /\ IdleScreen
    /\ \/ parsed = NoReply
       \/ \E keys \in SUBSET RawKeys, isValid \in BOOLEAN,
             detectedType \in {<<>>, Licencia}, reported \in ReportedQualities :
             /\ Cardinality(keys) <= MaxRawFields
             /\ \E chosen \in RawChoices(keys) :
                   parsed = [replied       |-> TRUE,
                             extractedData |-> ExtractedData(chosen),
                             isValid       |-> isValid,
                             detectedType  |-> detectedType,
                             imageQuality  |-> reported[1],
                             textQuality   |-> reported[2]]
    /\ post = NoResult
    /\ answer = NoResult
    /\ IdleValidate
    /\ IdleFraud
    /\ IdleLibrary

NotReported == {<<"N", "/", "A">>,
                <<"N", "o", " ", "v", "i", "s", "i", "b", "l", "e">>,
                <<"N", "o", " ", "d", "i", "s", "p", "o", "n", "i", "b", "l",
                  "e">>}

\* the loop that keeps the reported values: truthy and not a placeholder
RawData(extractedData) ==
    [k \in DOMAIN extractedData |->
        IF extractedData[k] \in NotReported THEN <<>> ELSE extractedData[k]]

\* a || b on the quality labels
OrElse(a, b) == IF a # "" THEN a ELSE b

\* a || b on texts
TextOrElse(a, b) == IF a # <<>> THEN a ELSE b

AnalysisResult(isValid, detectedType, processed, imageQuality, fraudAnalysis) ==
    [returned        |-> TRUE,
     isValid         |-> isValid,
     detectedType    |-> detectedType,
     extractedData   |-> processed.correctedData,
     ocrCorrections  |-> processed.corrections,
     imageQuality    |-> imageQuality,
     illegibleFields |-> processed.illegibleFields,
     fraudAnalysis   |-> fraudAnalysis]

\* the result of the catch block of analyzeDocument
ErrorResult ==
    [returned |-> TRUE, isValid |-> FALSE, detectedType |-> <<"E", "r", "r", "o", "r">>,
     extractedData |-> <<>>]

Thrown == [returned |-> FALSE, thrown |-> TRUE]

shouldReject(illegibleFields, imageQuality) ==
    Len(illegibleFields) >= 3 \/ (imageQuality = "ilegible" \/ imageQuality = "mala")

\* detectFraud applied to the data as reported, before its correction
ImageResult_OnReportedData(processed, imageQuality) ==
    AnalysisResult(parsed.isValid /\ ~shouldReject(processed.illegibleFields, imageQuality),
                   TextOrElse(parsed.detectedType, <<"D", "e", "s", "c", "o", "n", "o", "c", "i", "d", "o">>),
                   processed, imageQuality,
                   detectFraud(RawData(parsed.extractedData),
                               TextOrElse(parsed.detectedType, <<"u", "n", "k", "n", "o", "w", "n">>),
                               processed.illegibleFields, imageQuality))

ImageResult(processed, imageQuality) ==
    AnalysisResult(parsed.isValid /\ ~shouldReject(processed.illegibleFields, imageQuality),
                   TextOrElse(parsed.detectedType, <<"D", "e", "s", "c", "o", "n", "o", "c", "i", "d", "o">>),
                   processed, imageQuality,
                   detectFraud(processed.correctedData,
                               TextOrElse(parsed.detectedType, <<"u", "n", "k", "n", "o", "w", "n">>),
                               processed.illegibleFields, imageQuality))

TextResult(processed) ==
    AnalysisResult(parsed.isValid,
                   TextOrElse(parsed.detectedType, <<"D", "e", "s", "c", "o", "n", "o", "c", "i", "d", "o">>),
                   processed, "pdf",
                   detectFraud(processed.correctedData,
                               TextOrElse(parsed.detectedType, <<"u", "n", "k", "n", "o", "w", "n">>),
                               processed.illegibleFields, "pdf"))

AnalyzeDocument ==
    /\ pc = "input"
    /\ IF parsed.replied
       THEN /\ post' = postProcessExtractedData(RawData(parsed.extractedData))
            /\ answer' = ImageResult(post', OrElse(parsed.imageQuality,
                                                   OrElse(parsed.textQuality, "regular")))
       ELSE /\ post' = post
            /\ answer' = ErrorResult
    /\ pc' = "analyzed"
    /\ UNCHANGED <<now, parsed, validateVars, fraudVars, libraryVars, screenVars>>

AnalyzeDocumentFromText ==
    /\ pc = "input"
    /\ IF parsed.replied
       THEN /\ post' = postProcessExtractedData(RawData(parsed.extractedData))
            /\ answer' = TextResult(post')
       ELSE /\ post' = post
            /\ answer' = Thrown
    /\ pc' = "analyzedText"
    /\ UNCHANGED <<now, parsed, validateVars, fraudVars, libraryVars, screenVars>>

NextAnalyze ==
    \/ AnalyzeDocument
    \/ AnalyzeDocumentFromText

SpecAnalyze == InitAnalyze /\ [][NextAnalyze]_vars

-----------------------------------------------------------------------------
(* Claims about post-processing and document analysis                      *)

Analyzed == pc \in {"analyzed", "analyzedText"} /\ parsed.replied

ProcessedKeys ==
    {"curp", "rfc", "clabe", "placas", "vin", "nss", "nombre", "razonSocial"}

ValidatedKeys == {"curp", "rfc", "clabe", "placas", "vin", "nss"}

RawInput == RawData(parsed.extractedData)

\* the fields whose validator's confidence enters overallConfidence
Scored == {k \in ValidatedKeys : RawInput[k] # <<>> /\ ~Includes(RawInput[k], "*")}

RECURSIVE ConfidenceSum(_)
ConfidenceSum(keys) ==
    IF keys = {} THEN 0
    ELSE LET k == CHOOSE k \in keys : TRUE
         IN  validateField(k, RawInput[k]).confidence + ConfidenceSum(keys \ {k})

CorrectionLabels == {post.corrections[i].label : i \in DOMAIN post.corrections}

LabelOf(k) ==
    CASE k = "curp" -> "CURP" [] k = "rfc" -> "RFC" [] k = "clabe" -> "CLABE"
      [] k = "placas" -> "Placas" [] k = "vin" -> "VIN" [] k = "nss" -> "NSS"
      [] OTHER -> k

\* C3: a value of curp, rfc, clabe, placas, vin, nss, nombre or razonSocial
\* that contains '*' comes out of postProcessExtractedData unchanged, its
\* key is listed in illegibleFields, no correction is logged for it and
\* overallConfidence is the mean over the other validated fields only
\* (0.3 when there are none).
C3_IllegibleFieldsSkipped ==
    Analyzed =>
        /\ \A k \in ProcessedKeys :
              Includes(RawInput[k], "*") =>
                 /\ post.correctedData[k] = RawInput[k]
                 /\ \E i \in DOMAIN post.illegibleFields : post.illegibleFields[i] = k
                 /\ LabelOf(k) \notin CorrectionLabels
        /\ post.overallConfidence =
              IF Scored = {} THEN [num |-> 30, den |-> 1]
              ELSE [num |-> ConfidenceSum(Scored), den |-> Cardinality(Scored)]

\* a partly illegible CURP next to a field that was corrected
C3_Witness ==
    /\ Analyzed
    /\ Includes(RawInput.curp, "*")
    /\ RawInput.curp # <<"*", "*", "*">>
    /\ post.correctedData.curp = RawInput.curp
    /\ post.illegibleFields = <<"curp">>
    /\ post.corrections # <<>>

\* C9 (as claimed): an analysis with 3 or more illegible fields, or an
\* image quality of 'mala' or 'ilegible', returns isValid = false whatever
\* the AI stage reported.
C9_IllegibleRejected ==
    Analyzed =>
        ((Len(answer.illegibleFields) >= 3 \/ answer.imageQuality \in {"mala", "ilegible"})
            => ~answer.isValid)


-----------------------------------------------------------------------------
(* The library called directly on one value, well-formed or not: a         *)
(* validator, the normaliser, or postProcessExtractedData on a document    *)
(* holding that one field                                                  *)

ZeroCLABE == [i \in 1..18 |-> "0"]

BornAbroadCURP ==
    <<"P", "E", "G", "J", "8", "5", "0", "1", "0", "1",
      "H", "N", "E", "R", "R", "L", "0", "7">>

\* characters the caller may hold in place of a printed one
Smudges ==
    Range(Digits)
        \cup {"O", "o", "Q", "q", "D", "I", "i", "l", "L", "|", "!", "Z", "z",
              "S", "s", "$", "G", "g", "B", "b", "X", "x", "*", ".", " ", "-"}

Smudged(printed) ==
    {[printed EXCEPT ![i] = g] : i \in DOMAIN printed, g \in Smudges}

Specimens(f) ==
    {PrintedValue(f)}
        \cup (IF f = "clabe" THEN {ZeroCLABE}
              ELSE IF f = "curp" THEN {ChecksummedCURP, BornAbroadCURP}
              ELSE {})

LibraryInputs(f) ==
    UNION {Framings(p) \cup Smudged(p) : p \in Specimens(f)}
        \cup {<<>>}
        \cup {<<g>> : g \in Smudges}

Contexts == {"numeric", "alpha", "alphanumeric"}

\* a document whose only field is key
SingleField(key, v) == [k \in DataKeys |-> IF k = key THEN v ELSE <<>>]

InitLibrary ==
    /\ pc = "input"
    /\ now = Today
    /\ IdleScreen
    /\ field \in ValidatableFields
    /\ value \in LibraryInputs(field)
    /\ misreads = 0
    /\ outcome = Null
    /\ again = Null
    /\ IdleFraud
    /\ IdleAnalyze
    /\ IdleLibrary

NormalizeCall(context) ==
    /\ pc = "input"
    /\ mode' = context
    /\ reading' = normalizeOCRString(value, context)
    /\ pc' = "normalized"
    /\ UNCHANGED <<now, validateVars, fraudVars, analyzeVars, calls, screenVars>>

PostProcessCall ==
    /\ pc = "input"
    /\ post' = postProcessExtractedData(SingleField(field, value))
    /\ pc' = "processed"
    /\ UNCHANGED <<now, validateVars, fraudVars, parsed, answer, libraryVars,
                   screenVars>>

NextLibrary ==
    \/ ValidateFieldRequest
    \/ \E context \in Contexts : NormalizeCall(context)
    \/ PostProcessCall

SpecLibrary == InitLibrary /\ [][NextLibrary]_vars

-----------------------------------------------------------------------------
(* Claims about the library                                                *)

Called == pc = "validated"

\* the digits of a string read as numbers, after numeric normalisation
DigitsOnly(s) == SelectSeq(normalizeOCRString(s, "numeric"), IsDigit)

\* 17 digits get a leading 0, 19 digits lose the last one
EighteenDigits(d) ==
    IF Len(d) = 17 THEN <<"0">> \o d
    ELSE IF Len(d) = 19 THEN SubSeq(d, 1, 18)
    ELSE d

RECURSIVE Weighted371(_, _)
\* sum over i < n of (d_i * w_i) mod 10, the weights w being 3, 7, 1 repeating
Weighted371(d, n) ==
    IF n = 0 THEN 0
    ELSE Weighted371(d, n - 1)
            + ((DigitValue(d[n]) * <<3, 7, 1>>[((n - 1) % 3) + 1]) % 10)

ControlDigitMatches(d) ==
    /\ Len(d) >= 18
    /\ DigitValue(d[18]) = (10 - (Weighted371(d, 17) % 10)) % 10

\* C11: for a non-empty input validateAndFixCLABE returns as corrected the
\* digits left by numeric normalisation and stripping, with 17 digits given
\* a leading 0 and 19 digits cut to 18; valid is true exactly when that has
\* 18 digits and the 18th equals (10 - (sum of (d_i * w_i) mod 10 over the
\* first 17) mod 10) mod 10 with weights 3, 7, 1 repeating; confidence is
\* 0.95 exactly when the 18th digit equals that control digit and 0.6
\* otherwise; 000000000000000000 is valid with confidence 0.95.
C11_CLABEControlDigit ==
    (Called /\ field = "clabe" /\ value # <<>>) =>
        /\ outcome.corrected = EighteenDigits(DigitsOnly(value))
        /\ outcome.valid <=> (Len(outcome.corrected) = 18
                                /\ ControlDigitMatches(outcome.corrected))
        /\ outcome.confidence
              = IF ControlDigitMatches(outcome.corrected) THEN 95 ELSE 60
        /\ value = ZeroCLABE => (outcome.valid /\ outcome.confidence = 95)

\* a CLABE read with one digit too many has been cut to 18 and found valid
C11_Witness ==
    /\ Called
    /\ field = "clabe"
    /\ Len(DigitsOnly(value)) = 19
    /\ outcome.valid
    /\ outcome.confidence = 95

RECURSIVE DoubledSum(_, _)
\* sum over the first n digits, those at even index (from 0) doubled and
\* reduced by 9 when the double exceeds 9
DoubledSum(d, n) ==
    IF n = 0 THEN 0
    ELSE DoubledSum(d, n - 1)
            + (IF (n - 1) % 2 = 0
               THEN (IF 2 * DigitValue(d[n]) > 9 THEN 2 * DigitValue(d[n]) - 9
                     ELSE 2 * DigitValue(d[n]))
               ELSE DigitValue(d[n]))

\* the first ten digits followed by their check digit
WithCheckDigit(d) ==
    Append(SubSeq(d, 1, 10), DigitChar((10 - (DoubledSum(d, 10) % 10)) % 10))

\* C12: for a non-empty input validateAndFixNSS repairs the length before the
\* checksum: 10 digits are left-padded with '0' to 11 and 12 digits cut to
\* their first 11, and the check digit is computed from (and written after)
\* the first ten digits of the repaired string; with any digit count other
\* than 10, 11 or 12 it returns valid = false, confidence 0.3 and the
\* normalised digits unchanged, and no check digit is computed or logged.
C12_NSSRepairBeforeChecksum ==
    (Called /\ field = "nss" /\ value # <<>>) =>
        LET d == DigitsOnly(value)
        IN  /\ Len(d) = 10 => outcome.corrected = WithCheckDigit(<<"0">> \o d)
            /\ Len(d) = 11 => outcome.corrected = WithCheckDigit(d)
            /\ Len(d) = 12 => outcome.corrected = WithCheckDigit(SubSeq(d, 1, 11))
            /\ Len(d) \in {10, 11, 12} => outcome.valid
            /\ Len(d) \notin {10, 11, 12} =>
                  /\ ~outcome.valid
                  /\ outcome.confidence = 30
                  /\ outcome.corrected = d
                  /\ \A k \in DOMAIN outcome.corrections :
                        outcome.corrections[k].msg = "Invalid length"

\* a 10-digit NSS has been padded and its check digit overwritten
C12_Witness ==
    /\ Called
    /\ field = "nss"
    /\ Len(DigitsOnly(value)) = 10
    /\ Len(outcome.corrected) = 11
    /\ outcome.corrected[1] = "0"
    /\ outcome.corrected[11] # value[Len(value)]

Forbidden == {"I", "O", "Q"}

HasForbidden(s) == \E i \in DOMAIN s : s[i] \in Forbidden

NotSeparator(c) == ~(IsWhitespace(c) \/ c = "-")

\* position by position: I becomes 1, O and Q become 0, the rest is kept
OnlyForbiddenReplaced(from, to) ==
    /\ Len(to) = Len(from)
    /\ \A i \in DOMAIN from :
          to[i] = (CASE from[i] = "I" -> "1"
                     [] from[i] \in {"O", "Q"} -> "0"
                     [] OTHER -> from[i])

VINCorrectionLogged == outcome.corrections # <<>>

\* C13 (as claimed): for every input the corrected VIN contains none of I, O,
\* Q, every other character of the upper-cased input keeps its position, and
\* a correction is logged iff the upper-cased input contained an I, O or Q.
C13_VINOtherCharactersInPlace ==
    (Called /\ field = "vin") =>
        /\ ~HasForbidden(outcome.corrected)
        /\ OnlyForbiddenReplaced(ToUpperCase(value), outcome.corrected)
        /\ VINCorrectionLogged <=> HasForbidden(ToUpperCase(value))

\* C13 (amended): for every input the corrected VIN contains none of I, O, Q;
\* it is the upper-cased input without its whitespace and hyphens, with I
\* replaced by 1 and O and Q by 0 and every other remaining character kept
\* in its position; a correction is logged iff the upper-cased input
\* contained an I, O or Q.
C13_VINOnlyForbiddenReplaced ==
    (Called /\ field = "vin") =>
        /\ ~HasForbidden(outcome.corrected)
        /\ OnlyForbiddenReplaced(SelectSeq(ToUpperCase(value), NotSeparator),
                                 outcome.corrected)
        /\ VINCorrectionLogged <=> HasForbidden(ToUpperCase(value))

\* a VIN read with a hyphen and a forbidden letter was corrected
C13_Witness ==
    /\ Called
    /\ field = "vin"
    /\ Includes(value, "-")
    /\ Includes(value, "O")
    /\ Len(outcome.corrected) = Len(value) - 1
    /\ VINCorrectionLogged

\* the documented table of the numeric context, on a character as read
DocumentedDigit(c) ==
    CASE c \in {"O", "o", "Q", "D"} -> "0"
      [] c \in {"I", "i", "l", "L", "|", "!"} -> "1"
      [] c \in {"Z", "z"} -> "2"
      [] c \in {"S", "s", "$"} -> "5"
      [] c \in {"G", "b"} -> "6"
      [] c = "B" -> "8"
      [] c \in {"g", "q"} -> "9"
      [] OTHER -> ToUpperChar(c)

\* C14 (as claimed): normalizeOCRString(input, 'numeric') returns the input
\* without its noise characters, each remaining character replaced by the
\* documented glyph table: O, o, Q, D -> 0; I, i, l, L, |, ! -> 1; Z, z -> 2;
\* S, s, $ -> 5; G, b -> 6; B -> 8; g, q -> 9.
C14_DocumentedGlyphTable ==
    (pc = "normalized" /\ mode = "numeric") =>
        LET kept == SelectSeq(value, NotNoise)
        IN  reading = [i \in DOMAIN kept |-> DocumentedDigit(kept[i])]

\* a string: characters only, no undefined or emptied element left in it
IsText(s) ==
    /\ DOMAIN s = 1..Len(s)
    /\ \A i \in DOMAIN s : s[i] # Undefined /\ s[i] # ""

IsValidationResult(r) ==
    /\ DOMAIN r = {"valid", "corrected", "confidence", "corrections"}
    /\ r.valid \in BOOLEAN
    /\ IsText(r.corrected)
    /\ r.confidence \in 0..100

IsPostProcessed(r) ==
    /\ DOMAIN r = {"correctedData", "corrections", "overallConfidence",
                   "illegibleFields"}
    /\ DOMAIN r.correctedData = DataKeys
    /\ \A k \in DataKeys : IsText(r.correctedData[k])
    /\ r.overallConfidence.den > 0
    /\ r.overallConfidence.num \in 0..(100 * r.overallConfidence.den)

\* C15: every validator call and every postProcessExtractedData call on a
\* string returns a result object (a validation result with a boolean valid,
\* a string corrected and a confidence between 0 and 1; a post-processing
\* result with its four members), never an exception; for the empty string
\* every validator returns exactly valid = false, corrected = '',
\* confidence = 0.
C15_AlwaysAResult ==
    /\ Called =>
          /\ IsValidationResult(outcome)
          /\ value = <<>> =>
                outcome = [valid |-> FALSE, corrected |-> <<>>, confidence |-> 0,
                           corrections |-> <<>>]
    /\ pc = "processed" => IsPostProcessed(post)


\* a validator has been called with the empty string
C15_Witness ==
    /\ Called
    /\ value = <<>>
    /\ field = "nss"
    /\ ~outcome.valid
    /\ outcome.confidence = 0

-----------------------------------------------------------------------------
(* Claims about postProcessExtractedData within an analysis                *)

PassedThrough == DataKeys \ ProcessedKeys

\* C16: postProcessExtractedData leaves its input map as it was; every key
\* other than curp, rfc, clabe, placas, vin, nss, nombre, razonSocial is in
\* correctedData with exactly its input value, and correctedData has the
\* keys of the input, none added (an absent key stays absent).
C16_OtherKeysPassedThrough ==
    Analyzed =>
        /\ \A k \in PassedThrough : post.correctedData[k] = RawInput[k]
        /\ DOMAIN post.correctedData = DOMAIN RawInput
        /\ \A k \in DataKeys : RawInput[k] = <<>> => post.correctedData[k] = <<>>

\* a document with a corrected CURP and an expiry date was post-processed
C16_Witness ==
    /\ Analyzed
    /\ RawInput.vigenciaFin # <<>>
    /\ post.correctedData.vigenciaFin = RawInput.vigenciaFin
    /\ RawInput.curp # <<>>
    /\ post.correctedData.curp # RawInput.curp

\* the validators that ran: the checksum-bearing fields present and legible
Ran == {k \in ValidatedKeys : RawInput[k] # <<>> /\ ~isIllegible(RawInput[k])}

RECURSIVE SumOfConfidences(_)
SumOfConfidences(keys) ==
    IF keys = {} THEN 0
    ELSE LET k == CHOOSE k \in keys : TRUE
         IN  validateField(k, RawInput[k]).confidence + SumOfConfidences(keys \ {k})

\* C17: overallConfidence is the arithmetic mean of the confidences of the
\* validators that ran (curp, rfc, clabe, placas, vin, nss; nombre,
\* razonSocial and illegible fields do not count), 0.3 when none ran, and so
\* always lies between 0.3 and 1.0.
C17_MeanOfValidatorsThatRan ==
    Analyzed =>
        /\ Ran # {} =>
              /\ post.overallConfidence.den = Cardinality(Ran)
              /\ post.overallConfidence.num = SumOfConfidences(Ran)
        /\ Ran = {} => post.overallConfidence = [num |-> 30, den |-> 1]
        /\ 30 * post.overallConfidence.den <= post.overallConfidence.num
        /\ post.overallConfidence.num <= 100 * post.overallConfidence.den

\* two validators ran next to a formatted name
C17_Witness ==
    /\ Analyzed
    /\ Cardinality(Ran) = 2
    /\ RawInput.nombre # <<>>
    /\ ~isIllegible(RawInput.nombre)
    /\ post.overallConfidence.den = 2
    /\ post.overallConfidence.num < 200

-----------------------------------------------------------------------------
(* Claims about the CURP validator called directly                         *)

\* first and second letter of the codes of the 32 federal entities and of NE
EntityCodes ==
    {<<"A", "S">>, <<"B", "C">>, <<"B", "S">>, <<"C", "C">>, <<"C", "S">>,
     <<"C", "H">>, <<"C", "L">>, <<"C", "M">>, <<"D", "F">>, <<"D", "G">>,
     <<"G", "T">>, <<"G", "R">>, <<"H", "G">>, <<"J", "C">>, <<"M", "C">>,
     <<"M", "N">>, <<"M", "S">>, <<"N", "T">>, <<"N", "L">>, <<"O", "C">>,
     <<"P", "L">>, <<"Q", "T">>, <<"Q", "R">>, <<"S", "P">>, <<"S", "L">>,
     <<"S", "R">>, <<"T", "C">>, <<"T", "L">>, <<"T", "S">>, <<"V", "Z">>,
     <<"Y", "N">>, <<"Z", "S">>}
        \cup {<<"N", "E">>}

Letter(c) == c \in Range(UpperLetters)

Digit(c) == c \in Range(Digits)

\* ^[A-Z]{4}\d{6}[HM][A-Z]{2}[A-Z]{3}[A-Z0-9]\d$
MatchesCURPShape(s) ==
    /\ Len(s) = 18
    /\ \A i \in 1..18 :
          CASE i \in 1..4   -> Letter(s[i])
            [] i \in 5..10  -> Digit(s[i])
            [] i = 11       -> s[i] = "H" \/ s[i] = "M"
            [] i \in 12..16 -> Letter(s[i])
            [] i = 17       -> Letter(s[i]) \/ Digit(s[i])
            [] i = 18       -> Digit(s[i])

\* C19: validateAndFixCURP returns valid = true exactly when the corrected
\* value matches ^[A-Z]{4}\d{6}[HM][A-Z]{2}[A-Z]{3}[A-Z0-9]\d$ and its
\* positions 11-12 are one of the 33 valid state codes, NE among them.
C19_ValidIffShapeAndState ==
    (Called /\ field = "curp") =>
        /\ Cardinality(EntityCodes) = 33
        /\ VALID_STATE_CODES = EntityCodes
        /\ outcome.valid <=>
              /\ MatchesCURPShape(outcome.corrected)
              /\ SubSeq(outcome.corrected, 12, 13) \in EntityCodes

\* the CURP of someone born abroad was found valid
C19_Witness ==
    /\ Called
    /\ field = "curp"
    /\ outcome.valid
    /\ SubSeq(outcome.corrected, 12, 13) = <<"N", "E">>


\* C20 (as claimed): validateAndFixCURP changes the length only by its two
\* repairs: a cleaned input (upper-cased, whitespace and hyphens removed) of
\* 17 characters gets one appended, one of 19 is cut to 18, and for every
\* other length the corrected value is as long as the cleaned input.
C20_LengthOnlyRepaired ==
    (Called /\ field = "curp" /\ value # <<>>) =>
        LET cleaned == SelectSeq(ToUpperCase(value), NotSeparator)
        IN  Len(outcome.corrected) =
                IF Len(cleaned) \in {17, 19} THEN 18 ELSE Len(cleaned)

-----------------------------------------------------------------------------
(* Several invocations in progress at once: postProcessExtractedData block *)
(* by block, detectFraud rule group by rule group, a validator in one      *)
(* step.  What an invocation has accumulated so far (correctedData,        *)
(* corrections, illegibleFields, totalConfidence and fieldCount; indicators*)
(* and riskScore) is held in the locals of that invocation.                *)

MaxCalls == 2

Callers == 1..MaxCalls

FirstDocument ==
    ExtractedData("clabe" :> SubSeq(PrintedValue("clabe"), 1, 17)
                    @@ "vin" :> PrintedValue("vin")
                    @@ "nombre" :> <<"a", "n", "a", " ", " ", "l", "o", "p", "e", "z">>)

SecondDocument ==
    ExtractedData("curp" :> <<"P", "E", "G", "J", "*", "*", "0", "1", "0", "1", "H",
                              "D", "F", "R", "R", "L", "0", "9">>
                    @@ "placas" :> <<"A", "B", "C", "-", "1", "2", "3", "4">>
                    @@ "nss" :> <<"7", "2", "8", "1", "6", "4", "0", "5", "1", "2", "3">>
                    @@ "vigenciaFin" :> <<"2", "0", "2", "0", "-", "1", "2", "-", "3", "1">>)

ThirdDocument ==
    ExtractedData("curp" :> BadStateCURP
                    @@ "sexo" :> <<"M">>
                    @@ "vin" :> PrintedValue("vin")
                    @@ "anio" :> <<"1", "8", "9", "0">>)

\* an invocation that has not started: its arguments, nothing accumulated
Invocation(op, arg) ==
    [op |-> op, arg |-> arg, step |-> 0, acc |-> <<>>, result |-> NoResult]

FraudArguments(extractedData, documentType, illegibleFields, imageQuality) ==
    [extractedData |-> extractedData, documentType |-> documentType,
     illegibleFields |-> illegibleFields, imageQuality |-> imageQuality]

Invocations ==
    {Invocation("postProcessExtractedData", FirstDocument),
     Invocation("postProcessExtractedData", SecondDocument),
     Invocation("detectFraud",
                FraudArguments(ThirdDocument,
                               <<"c", "i", "r", "c", "u", "l", "a", "c", "i", "o", "n">>,
                               <<"curp">>, "mala")),
     Invocation("validateField", [field |-> "clabe", value |-> ZeroCLABE])}

InitConcurrent ==
    /\ pc = "input"
    /\ now = Today
    /\ IdleScreen
    /\ IdleValidate
    /\ IdleFraud
    /\ IdleAnalyze
    /\ mode = ""
    /\ reading = <<>>
    /\ calls \in [Callers -> Invocations]

\* the locals of the other invocation taken for one's own
AccumulatedBy_First(c) == calls[1].acc

\* the accumulators an invocation appends to: the ones it declared
AccumulatedBy(c) == calls[c].acc

StagesOf(call) ==
    IF call.op = "postProcessExtractedData" THEN PostBlocks(call.arg)
    ELSE IF call.op = "detectFraud"
    THEN FraudStages(call.arg.extractedData, call.arg.documentType,
                     call.arg.illegibleFields, call.arg.imageQuality)
    ELSE <<>>

\* the field blocks of postProcessExtractedData, the rule groups of detectFraud
StageCount(op) ==
    IF op = "postProcessExtractedData" THEN 8
    ELSE IF op = "detectFraud" THEN 7
    ELSE 0

Running(c) == calls[c].result = NoResult

\* one field block of postProcessExtractedData
PostProcessStep(c) ==
    /\ Running(c)
    /\ calls[c].op = "postProcessExtractedData"
    /\ calls[c].step < StageCount(calls[c].op)
    /\ calls' = [calls EXCEPT
                   ![c].acc = Append(AccumulatedBy(c),
                                     StagesOf(calls[c])[calls[c].step + 1]),
                   ![c].step = calls[c].step + 1]
    /\ UNCHANGED <<pc, now, validateVars, fraudVars, analyzeVars, mode, reading,
                   screenVars>>

\* one rule group of detectFraud
DetectFraudStep(c) ==
    /\ Running(c)
    /\ calls[c].op = "detectFraud"
    /\ calls[c].step < StageCount(calls[c].op)
    /\ calls' = [calls EXCEPT
                   ![c].acc = AccumulatedBy(c) \o StagesOf(calls[c])[calls[c].step + 1],
                   ![c].step = calls[c].step + 1]
    /\ UNCHANGED <<pc, now, validateVars, fraudVars, analyzeVars, mode, reading,
                   screenVars>>

\* the return statement, from what the invocation accumulated
Return(c) ==
    /\ Running(c)
    /\ calls[c].step = StageCount(calls[c].op)
    /\ calls' = [calls EXCEPT
                   ![c].result =
                       IF calls[c].op = "postProcessExtractedData"
                       THEN PostResult(calls[c].arg, AccumulatedBy(c))
                       ELSE IF calls[c].op = "detectFraud"
                       THEN FraudReport(AccumulatedBy(c))
                       ELSE validateField(calls[c].arg.field, calls[c].arg.value)]
    /\ UNCHANGED <<pc, now, validateVars, fraudVars, analyzeVars, mode, reading,
                   screenVars>>

NextConcurrent ==
    \E c \in Callers :
        \/ PostProcessStep(c)
        \/ DetectFraudStep(c)
        \/ Return(c)

SpecConcurrent == InitConcurrent /\ [][NextConcurrent]_vars

-----------------------------------------------------------------------------
(* Claims about concurrent invocations                                     *)

\* what the invocation returns when nothing else runs
ReturnedAlone(call) ==
    IF call.op = "postProcessExtractedData" THEN postProcessExtractedData(call.arg)
    ELSE IF call.op = "detectFraud"
    THEN detectFraud(call.arg.extractedData, call.arg.documentType,
                     call.arg.illegibleFields, call.arg.imageQuality)
    ELSE validateField(call.arg.field, call.arg.value)

\* C18: the core holds no shared mutable state: with validators,
\* postProcessExtractedData and detectFraud invoked for independent
\* documents and their steps interleaved in any order, without locking,
\* each invocation returns what it returns when run alone.
C18_InterleavingHarmless ==
    \A c \in Callers : ~Running(c) => calls[c].result = ReturnedAlone(calls[c])

\* an invocation returned while another, on another document, was half-way
C18_Witness ==
    \E c, d \in Callers :
        /\ ~Running(c)
        /\ calls[c].op = "postProcessExtractedData"
        /\ Running(d)
        /\ calls[d].arg # calls[c].arg
        /\ calls[d].step > 0
        /\ calls[d].step < StageCount(calls[d].op)


-----------------------------------------------------------------------------
(* Claims about the single rules of the fraud analyzer                     *)

MentionsLicence(documentType) == IncludesText(ToLowerCase(documentType), Licencia)

\* the age the CURP gives lies in [0, 16) years
UnderSixteen(curp) ==
    /\ Legible(curp)
    /\ extractBirthDateFromCURP(curp) # NaN
    /\ ElapsedQuarterDays(extractBirthDateFromCURP(curp)) >= 0
    /\ ElapsedQuarterDays(extractBirthDateFromCURP(curp)) < 16 * 1461

\* C21 (as claimed): whenever the age derived from the CURP is below 16 and
\* the declared document type mentions a driving licence ('licencia' or the
\* detected type 'Licencia de Conducir'), the report holds the underage
\* indicator: age_inconsistency, error, on curp.
C21_UnderageOnAnyLicence ==
    (pc = "analysed" /\ ticks = 0 /\ UnderSixteen(extracted.curp)
        /\ MentionsLicence(declared)) =>
        \E i \in DOMAIN analysis.fraudIndicators :
            /\ analysis.fraudIndicators[i].type = "age_inconsistency"
            /\ analysis.fraudIndicators[i].severity = "error"
            /\ analysis.fraudIndicators[i].field = "curp"


-----------------------------------------------------------------------------
(* The helpers of the fraud analyzer called one by one on a document with  *)
(* a single field, at several dates and hours                              *)

TwoDigits(a, b) == <<a, b>>

BirthCURP(yy, mm, dd) ==
    <<"P", "E", "G", "J">> \o yy \o mm \o dd \o <<"H", "D", "F", "R", "R", "L", "0", "9">>

BirthYears ==
    {TwoDigits("0", "0"), TwoDigits("2", "4"), TwoDigits("3", "0"),
     TwoDigits("3", "1"), TwoDigits("8", "5")}

BirthMonths ==
    {TwoDigits("0", "0"), TwoDigits("0", "1"), TwoDigits("0", "2"),
     TwoDigits("0", "4"), TwoDigits("1", "2"), TwoDigits("1", "3")}

BirthDays ==
    {TwoDigits("0", "0"), TwoDigits("0", "1"), TwoDigits("2", "8"),
     TwoDigits("2", "9"), TwoDigits("3", "0"), TwoDigits("3", "1"),
     TwoDigits("3", "2")}

\* a day of 10 and a month of 10 read by the OCR with the letter O
MisreadBirthCURPs ==
    {BirthCURP(TwoDigits("8", "5"), TwoDigits("0", "1"), TwoDigits("1", "O")),
     BirthCURP(TwoDigits("8", "5"), TwoDigits("1", "O"), TwoDigits("0", "1")),
     BirthCURP(TwoDigits("8", "5"), TwoDigits("0", "1"), TwoDigits("O", "1"))}

\* a well-formed CURP but for the gender letter
UnknownGenderCURP ==
    <<"P", "E", "G", "J", "8", "5", "0", "1", "0", "1", "X", "D", "F", "R",
      "R", "L", "0", "9">>

ScreeningCURPs ==
    {BirthCURP(yy, mm, dd) : yy \in BirthYears, mm \in BirthMonths, dd \in BirthDays}
        \cup MisreadBirthCURPs
        \cup {AdultCURP, BadStateCURP, UnknownGenderCURP}

ScreeningExpiries ==
    {<<"2", "0", "4", "6", "-", "1", "2", "-", "3", "1">>,
     <<"2", "0", "4", "7", "-", "0", "1", "-", "0", "1">>,
     <<"2", "0", "4", "6", "-", "1", "1", "-", "0", "3">>,
     <<"2", "0", "4", "6", "-", "1", "1", "-", "0", "4">>,
     <<"2", "0", "2", "0", "-", "1", "2", "-", "3", "1">>,
     <<"2", "0", "2", "7", "-", "0", "6", "-", "3", "0">>,
     <<"2", "0", "9", "9", " ", "0", "1", "/", "0", "1", "/", "2", "0", "2",
       "0">>}

ScreeningNames ==
    {<<"T", "E", "S", "T", " ", "U", "S", "U", "A", "R", "I", "O">>,
     <<"M", "a", "r", "i", "a", " ", "L", "o", "p", "e", "z">>,
     <<"P", "r", "u", "e", "b", "a", " ", "U", "n", "o">>,
     <<"T", "E", "S", "T", "*", "*", "*">>}

PersonTypes == {Licencia, <<"i", "n", "e">>}

\* the vehicle-class entries of SUPPORTED_DOCUMENT_TYPES, by id and by name
VehicleTypeIds ==
    {<<"c", "i", "r", "c", "u", "l", "a", "c", "i", "o", "n">>,
     <<"p", "o", "l", "i", "z", "a">>,
     <<"v", "e", "r", "i", "f", "i", "c", "a", "c", "i", "o", "n">>}

VehicleTypeNames ==
    {<<"T", "a", "r", "j", "e", "t", "a", " ", "d", "e", " ", "C", "i", "r",
       "c", "u", "l", "a", "c", "i", "ó", "n">>,
     <<"P", "ó", "l", "i", "z", "a", " ", "d", "e", " ", "S", "e", "g", "u",
       "r", "o">>,
     <<"V", "e", "r", "i", "f", "i", "c", "a", "c", "i", "ó", "n", " ", "V",
       "e", "h", "i", "c", "u", "l", "a", "r">>}

\* the single-field documents with the document types they are declared as
ScreeningCases ==
    {[document |-> ExtractedData([k \in {"curp"} |-> c]), type |-> t] :
        c \in ScreeningCURPs, t \in PersonTypes}
    \cup {[document |-> ExtractedData([k \in {"vin"} |-> v]), type |-> t] :
        v \in FieldValues("vin"), t \in VehicleTypeIds \cup VehicleTypeNames \cup PersonTypes}
    \cup {[document |-> ExtractedData([k \in {"anio"} |-> a]), type |-> t] :
        a \in FieldValues("anio"), t \in VehicleTypeIds \cup VehicleTypeNames \cup PersonTypes}
    \cup {[document |-> ExtractedData([k \in {"vigenciaFin"} |-> e]), type |-> Licencia] :
        e \in ScreeningExpiries}
    \cup {[document |-> ExtractedData([k \in {"nombre"} |-> n]), type |-> Licencia] :
        n \in ScreeningNames}

\* today and the last day of 2060
ScreeningDates == {Today, DaysFromCivil(2060, 12, 31)}

InitScreening ==
    /\ pc = "input"
    /\ now \in ScreeningDates
    /\ timeOfDay \in {1, 2, 3}
    /\ \E c \in ScreeningCases :
          /\ extracted = c.document
          /\ declared = c.type
    /\ illegible = <<>>
    /\ quality = "buena"
    /\ analysis = NoAnalysis
    /\ repeated = NoAnalysis
    /\ ticks = 0
    /\ born = NoResult
    /\ screened = NoResult
    /\ IdleValidate
    /\ IdleAnalyze
    /\ IdleLibrary

ExtractBirthDateCall ==
    /\ born = NoResult
    /\ extracted.curp # <<>>
    /\ born' = [returned |-> TRUE, date |-> extractBirthDateFromCURP(extracted.curp)]
    /\ UNCHANGED <<pc, now, timeOfDay, screened, validateVars, fraudVars, analyzeVars,
                   libraryVars>>

QuickFraudCheckCall ==
    /\ screened = NoResult
    /\ screened' = [returned |-> TRUE, passed |-> quickFraudCheck(extracted)]
    /\ UNCHANGED <<pc, now, timeOfDay, born, validateVars, fraudVars, analyzeVars,
                   libraryVars>>

NextScreening ==
    \/ DetectFraudCall
    \/ ExtractBirthDateCall
    \/ QuickFraudCheckCall

SpecScreening == InitScreening /\ [][NextScreening]_vars


-----------------------------------------------------------------------------
(* Claims about the helpers of the fraud analyzer                          *)

TwoDigitValue(s) == 10 * DigitValue(s[1]) + DigitValue(s[2])

\* the year the century rule gives for YY
CenturyYear(yy) == IF yy <= 30 THEN 2000 + yy ELSE 1900 + yy

DaysInMonth(year, month) ==
    IF month = 12 THEN 31
    ELSE DaysFromCivil(year, month + 1, 1) - DaysFromCivil(year, month, 1)

\* positions 4-9 hold six digits that name a day of the calendar
NamesRealDay(curp) ==
    /\ Len(curp) >= 10
    /\ \A i \in 5..10 : IsDigit(curp[i])
    /\ TwoDigitValue(Slice(curp, 6, 8)) \in 1..12
    /\ TwoDigitValue(Slice(curp, 8, 10)) >= 1
    /\ TwoDigitValue(Slice(curp, 8, 10))
          <= DaysInMonth(CenturyYear(TwoDigitValue(Slice(curp, 4, 6))),
                         TwoDigitValue(Slice(curp, 6, 8)))

NamedDay(curp) ==
    DaysFromCivil(CenturyYear(TwoDigitValue(Slice(curp, 4, 6))),
                  TwoDigitValue(Slice(curp, 6, 8)), TwoDigitValue(Slice(curp, 8, 10)))

\* C22 (as claimed): extractBirthDateFromCURP returns a date exactly when
\* positions 4-9 hold YYMMDD with MM in 01..12 and DD a real day of that
\* month in the year 2000+YY (YY <= 30) or 1900+YY, and then it is that
\* date; anything else yields no date instead of a shifted one.
C22_DateIffRealDay ==
    born.returned =>
        /\ born.date # NaN <=> NamesRealDay(extracted.curp)
        /\ born.date # NaN => born.date = NamedDay(extracted.curp)


FutureDateOnExpiry(report) ==
    \E i \in DOMAIN report.fraudIndicators :
        /\ report.fraudIndicators[i].type = "future_date"
        /\ report.fraudIndicators[i].severity = "error"
        /\ report.fraudIndicators[i].field = "vigencia"

\* the day twenty years after the current date
TwentyYearsOn == NewDate(GetFullYear(now) + 20, GetMonth(now), CivilFromDays(now).day)

\* C23 (as claimed): the report holds the 'suspiciously far in the future'
\* indicator (future_date, error, on vigencia) exactly when the parsed
\* expiry date lies more than 20 years after the current date, and never
\* together with the expired-document indicator.
C23_FarFutureIffTwentyYears ==
    (pc = "analysed" /\ Legible(ExpirationField(extracted))
        /\ ParseDateString(ExpirationField(extracted)) # NaN) =>
        /\ FutureDateOnExpiry(analysis)
              <=> ParseDateString(ExpirationField(extracted)) > TwentyYearsOn
        /\ ~(FutureDateOnExpiry(analysis)
                /\ "expired_document" \in IndicatorTypes(analysis))


VehicleIndicatorFields(report) ==
    {report.fraudIndicators[i].field : i \in DOMAIN report.fraudIndicators} \cap {"vin", "anio"}

\* a legible VIN or year that the vehicle rules object to
BadVIN(vin) == Legible(vin) /\ (Len(vin) # 17 \/ HasForbidden(vin))

BadYear(anio) ==
    /\ Legible(anio)
    /\ ParseInt(anio) # NaN
    /\ (ParseInt(anio) < 1900 \/ ParseInt(anio) > GetFullYear(now) + 1)

\* C24 (as claimed): the VIN rules and the vehicle-year rule are evaluated
\* for every vehicle-class document type, given by id (circulacion, poliza,
\* verificacion) or by name (Tarjeta de Circulación, Póliza de Seguro,
\* Verificación Vehicular), and for no other type: a bad VIN or year is
\* reported on exactly those documents.
C24_VehicleRulesOnVehicleTypes ==
    pc = "analysed" =>
        /\ (declared \in VehicleTypeIds \cup VehicleTypeNames /\ BadVIN(extracted.vin))
              => "vin" \in VehicleIndicatorFields(analysis)
        /\ (declared \in VehicleTypeIds \cup VehicleTypeNames /\ BadYear(extracted.anio))
              => "anio" \in VehicleIndicatorFields(analysis)
        /\ declared \notin VehicleTypeIds \cup VehicleTypeNames
              => VehicleIndicatorFields(analysis) = {}


ImpossibleAge(report) ==
    \E i \in DOMAIN report.fraudIndicators :
        /\ report.fraudIndicators[i].type = "impossible_date"
        /\ report.fraudIndicators[i].field = "curp"

\* C25 (as claimed): birth years being confined to 1931..2030, no report
\* made before the year 2061 holds the impossible-age indicator.
C25_NoImpossibleAgeBefore2061 ==
    (pc = "analysed" /\ GetFullYear(now) < 2061) => ~ImpossibleAge(analysis)

\* noon of 31 December 2060 has not passed
UpToNoonOfLastDay ==
    \/ now < DaysFromCivil(2060, 12, 31)
    \/ now = DaysFromCivil(2060, 12, 31) /\ timeOfDay <= 2

\* C25: a birth date taken from a CURP lies in 1931..2030, and no report
\* made up to noon of 31 December 2060 holds the impossible-age indicator.
C25_NoImpossibleAgeUpToNoon ==
    /\ (born.returned /\ born.date # NaN) => GetFullYear(born.date) \in 1931..2030
    /\ (pc = "analysed" /\ UpToNoonOfLastDay) => ~ImpossibleAge(analysis)

\* a person born on 1 January 1931, analysed at noon of 31 December 2060,
\* is 130 years old to the hour
C25_Witness ==
    /\ pc = "analysed"
    /\ now = DaysFromCivil(2060, 12, 31)
    /\ timeOfDay = 2
    /\ Legible(extracted.curp)
    /\ extractBirthDateFromCURP(extracted.curp) = DaysFromCivil(1931, 1, 1)
    /\ born.returned
    /\ ~ImpossibleAge(analysis)


-----------------------------------------------------------------------------
(* Document analysis of vehicle documents: the AI stage reports a VIN as   *)
(* the OCR may have read it                                                *)

CleanVIN == <<"1", "H", "G", "C", "M", "8", "2", "6", "3", "3", "A", "1", "1", "9",
              "0", "1", "8">>

ReportedVINs == Smudged(PrintedValue("vin")) \cup Smudged(CleanVIN) \cup Framings(CleanVIN)

InitVehicle ==
    /\ pc = "input"
    /\ now = Today
    /\ IdleScreen
    /\ \E vin \in ReportedVINs, detectedType \in VehicleTypeIds \cup VehicleTypeNames :
          parsed = [replied       |-> TRUE,
                    extractedData |-> ExtractedData([k \in {"vin"} |-> vin]),
                    isValid       |-> TRUE,
                    detectedType  |-> detectedType,
                    imageQuality  |-> "buena",
                    textQuality   |-> ""]
    /\ post = NoResult
    /\ answer = NoResult
    /\ IdleValidate
    /\ IdleFraud
    /\ IdleLibrary

SpecVehicle == InitVehicle /\ [][NextAnalyze]_vars

VINLettersReported(report) ==
    \E i \in DOMAIN report.fraudIndicators :
        /\ report.fraudIndicators[i].field = "vin"
        /\ report.fraudIndicators[i].severity = "warning"
        /\ report.fraudIndicators[i].message = "VIN contains invalid characters (I, O, or Q)"

\* C26: in a document analysis, where detectFraud reads the data that
\* postProcessExtractedData corrected, the report never holds the 'VIN
\* contains invalid characters (I, O, or Q)' indicator: the VIN handed over
\* is illegible and skipped, or empty, or holds none of the three letters.
C26_VINLettersNeverInPipeline ==
    (Analyzed /\ answer.returned) =>
        /\ ~VINLettersReported(answer.fraudAnalysis)
        /\ \/ Includes(answer.extractedData.vin, "*")
           \/ \A i \in DOMAIN answer.extractedData.vin :
                 answer.extractedData.vin[i] \notin {"I", "O", "Q", "i", "o", "q"}

\* a vehicle document whose reported VIN holds a forbidden letter, on which
\* the rule would fire were it applied to the reported data
C26_Witness ==
    /\ Analyzed
    /\ answer.returned
    /\ IsVehicleDocument(parsed.detectedType)
    /\ VINLettersRule(parsed.extractedData.vin) # <<>>
    /\ VINRules(parsed.extractedData.vin) # <<>>
    /\ answer.ocrCorrections # <<>>
    /\ ~VINLettersReported(answer.fraudAnalysis)


\* C27: validateAndFixNSS returns valid exactly when the input, normalised as
\* numeric and stripped of non-digits, has 10, 11 or 12 digits; a wrong check
\* digit is overwritten and never makes the outcome invalid; a valid outcome
\* has 11 digits, the last being the check digit of the first ten, and a
\* confidence of at least 0.8.
C27_NSSValidIffRepairable ==
    (Called /\ field = "nss") =>
        /\ outcome.valid <=> Len(DigitsOnly(value)) \in {10, 11, 12}
        /\ outcome.valid =>
              /\ Len(outcome.corrected) = 11
              /\ outcome.corrected[11]
                    = DigitChar((10 - (DoubledSum(outcome.corrected, 10) % 10)) % 10)
              /\ outcome.confidence >= 80
              /\ outcome.confidence = 100 - 10 * Len(outcome.corrections)

\* ten digits whose last is not the check digit of the padded string: two
\* corrections, still valid, at the lowest confidence of a valid outcome
C27_Witness ==
    /\ Called
    /\ field = "nss"
    /\ Len(DigitsOnly(value)) = 10
    /\ DigitsOnly(value)[10] # outcome.corrected[11]
    /\ outcome.valid
    /\ Len(outcome.corrections) = 2
    /\ outcome.confidence = 80


\* the messages of the two rules that score 15
MinorMessages ==
    {"Poor image quality may indicate intentional obscuring",
     "VIN contains invalid characters (I, O, or Q)"}

\* C28: a report of riskLevel 'low' holds at most one indicator, which is
\* that of the poor-image-quality rule or of the VIN-forbidden-letter rule,
\* and no recommendation; two indicators, or a single one of any other rule,
\* give at least 'medium'.
C28_LowMeansAtMostOneMinor ==
    (pc = "analysed" /\ ticks = 0) =>
        /\ analysis.riskLevel = "low" =>
              /\ Len(analysis.fraudIndicators) <= 1
              /\ \A i \in DOMAIN analysis.fraudIndicators :
                    analysis.fraudIndicators[i].message \in MinorMessages
              /\ analysis.recommendations = <<>>
        /\ Len(analysis.fraudIndicators) >= 2 =>
              analysis.riskLevel \in {"medium", "high", "critical"}

\* a circulation card whose VIN holds I and O and nothing else to report
C28_Witness ==
    /\ pc = "analysed"
    /\ ticks = 0
    /\ analysis.riskLevel = "low"
    /\ Len(analysis.fraudIndicators) = 1
    /\ analysis.fraudIndicators[1].field = "vin"
    /\ analysis.riskScore = 15


\* C29 (as claimed): quickFraudCheck is a sound pre-screen: when it returns
\* false, detectFraud on the same data, with no illegible fields and a good
\* image, reports at least one fraud indicator.
C29_QuickCheckSound ==
    (screened.returned /\ ~screened.passed /\ pc = "analysed"
        /\ illegible = <<>> /\ quality = "buena") =>
        analysis.fraudIndicators # <<>>


-----------------------------------------------------------------------------
(* A CURP validated and its corrected value handed to the fraud analyzer   *)
(* and to the quick check                                                  *)

InitCorrected ==
    /\ InitLibrary
    /\ field = "curp"

DetectFraudOnCorrected ==
    /\ pc = "validated"
    /\ analysis = NoAnalysis
    /\ analysis' = detectFraud(SingleField(field, outcome.corrected), <<"i", "n", "e">>,
                               <<>>, "buena")
    /\ UNCHANGED <<pc, now, validateVars, extracted, declared, illegible, quality,
                   repeated, ticks, analyzeVars, libraryVars, screenVars>>

QuickFraudCheckOnCorrected ==
    /\ pc = "validated"
    /\ screened = NoResult
    /\ screened' = [returned |-> TRUE,
                    passed   |-> quickFraudCheck(SingleField(field, outcome.corrected))]
    /\ UNCHANGED <<pc, now, timeOfDay, born, validateVars, fraudVars, analyzeVars,
                   libraryVars>>

NextCorrected ==
    \/ ValidateFieldRequest
    \/ DetectFraudOnCorrected
    \/ QuickFraudCheckOnCorrected

SpecCorrected == InitCorrected /\ [][NextCorrected]_vars

\* C30: the state-code table of validateAndFixCURP and that of detectFraud
\* and quickFraudCheck hold the same 33 codes; when validateAndFixCURP
\* returns valid, detectFraud on the corrected value reports no
\* state_code_mismatch and the CURP test of quickFraudCheck passes.
C30_ValidCURPPassesStateChecks ==
    /\ VALID_STATE_CODES = FRAUD_VALID_STATE_CODES
    /\ Cardinality(FRAUD_VALID_STATE_CODES) = 33
    /\ (Called /\ outcome.valid /\ analysis # NoAnalysis) =>
          "state_code_mismatch" \notin IndicatorTypes(analysis)
    /\ (Called /\ outcome.valid /\ screened.returned) =>
          /\ screened.passed
          /\ QuickCURPCheck(outcome.corrected)

\* a CURP of a person born abroad (state code NE) found valid after a
\* correction, analysed and screened
C30_Witness ==
    /\ Called
    /\ outcome.valid
    /\ outcome.corrections # <<>>
    /\ extractStateFromCURP(outcome.corrected) = <<"N", "E">>
    /\ analysis # NoAnalysis
    /\ "state_code_mismatch" \notin IndicatorTypes(analysis)
    /\ screened.returned
    /\ screened.passed

====
